---- MODULE Spec2Model ----
(***************************************************************************)
(* Renumbering workflow engine of python/web_server.py: the run state      *)
(* store (table RENUMBER_WAGON), the background step jobs that drive the   *)
(* remote ERP operations over its rows, and the part-number exchange run.  *)
(***************************************************************************)
EXTENDS Integers, Sequences, FiniteSets, TLC

VARIABLES
    tableExists,   \* the RENUMBER_WAGON_<env> table exists in the SQLite cache
    table,         \* its rows in rowid order (rowid = position)
    tauschExists,  \* the TEILENUMMER_TAUSCH_<env> table exists
    tausch,        \* its rows in rowid order
    dryRun,        \* _effective_dry_run(env) of this deployment
    retryLimit,    \* the SPAREPART_*_RETRY_MAX settings are not 0
    job,           \* the job of the registry that was started last
    apiLog,        \* API.log, one record per _append_api_log
    remoteLog,     \* calls that reached call_m3_mi_get / _call_ips_service
    nJobs,         \* number of jobs started so far
    jobs,          \* the registry _jobs as the polling endpoints read it
    polled,        \* the answer to the last poll of a job
    parts,         \* a row and the identifiers derived for it, as strings
    served,        \* a request at the path filter and what became of it
    resolved,      \* a removal history and the work items resolved from it
    workers,       \* worker threads of jobs that run at the same time
    snapshot       \* the dict _job_snapshot returned to its caller

vars == <<tableExists, table, tauschExists, tausch, dryRun, retryLimit, job, apiLog,
          remoteLog, nJobs, jobs, polled, parts, served, resolved, workers, snapshot>>

----------------------------------------------------------------------------
(* Bounds of the model *)

MaxRows == 2       \* rows of one imported hierarchy
MaxJobs == 2       \* jobs started in one behaviour
MaxPasses == 3     \* rounds of a retry loop the model follows
MaxTauschRows == 1 \* rows of the part-number exchange table

(* Retry maxima: environment-configured in the source; the model runs the  *)
(* loops with small configured values.                                     *)
MOS170_RETRY_MAX == 2
CMS100_RETRY_MAX == 2
MOS100_RETRY_MAX == 2
WAGON_CMS100_RETRY_MAX == 2
WAGON_MOS100_RETRY_MAX == 2

----------------------------------------------------------------------------
(* Hierarchy nodes.  A node's identity is the tuple the row key is built   *)
(* from; the model names three nodes of different shape.                   *)

Nodes == {"part", "noserial", "noitem"}

\* ITNO / SER2 column of a node ("" = empty)
NodeITNO(n) == IF n = "noitem" THEN "" ELSE "ITNO"
NodeSER2(n) == IF n = "noserial" THEN "" ELSE "SER2"

\* whether the node's item / serial number ends with the wagon's model /
\* serial suffix (what _compute_part_updates tests)
NodeItemEmbedsModel(n) == n \in {"part", "noserial"}
NodeSerialEmbedsWagon(n) == n \in {"part", "noitem"}

DateInputs == {"20240101", "soon"}

StatusFields == {"OUT", "IN_", "PLPN", "MWNO", "MOS100_STATUS", "MOS180_STATUS",
                 "MOS050_STATUS", "STS046_ADD_STATUS", "ROLLBACK"}

\* _format_yyyymmdd: the first eight digits of the value
format_yyyymmdd(value) == IF value = "20240101" THEN "20240101" ELSE ""

\* the status strings of the model that start with "ok" (case-insensitive)
OkPrefixed == {"OK", "OK_ASYNC", "OK_IDEMPOTENT", "OK: bereits installiert"}

\* _is_ok_status
is_ok_status(value) == value \in OkPrefixed

\* _renumber_row_key: position, item and serial (the node), parent item and
\* parent serial
renumber_row_key(row) == <<row.CFGL, row.NODE, row.MTRL, row.SERN>>

\* _needs_renumber
needs_renumber(row) ==
    NodeSER2(row.NODE) # "" /\ (row.NEW_PART_ITNO # "" \/ row.NEW_PART_SER2 # "")

\* _compute_part_updates: the derived (new item, new serial), each empty
\* unless the old identifier embeds the wagon's suffix
compute_part_updates(node) ==
    <<IF NodeITNO(node) # "" /\ NodeItemEmbedsModel(node) THEN "NEW_ITNO" ELSE "",
      IF NodeSER2(node) # "" /\ NodeSerialEmbedsWagon(node) THEN "NEW_SER2" ELSE "">>

\* a row as MOS256MI delivers it: no step status, no conversion date
\* (IN_ is the column "IN"; MERGED is no column: it records that the row
\* took over the OK remove status of an existing row at the last import;
\* position and parent of these rows are part of what the node names)
RawRow(n) ==
    [NODE |-> n, MERGED |-> FALSE, CFGL |-> <<>>, MTRL |-> "", SERN |-> "",
     UMBAU_DATUM |-> "", NEW_PART_ITNO |-> "", NEW_PART_SER2 |-> "",
     OUT |-> "", IN_ |-> "", PLPN |-> "", MWNO |-> "",
     MOS100_STATUS |-> "", MOS180_STATUS |-> "", MOS050_STATUS |-> "",
     STS046_ADD_STATUS |-> "", ROLLBACK |-> ""]

\* a row as renumber_import_mrouhi maps it: removal date and OUT = OK
MrouhiRow(n, remd) == [RawRow(n) EXCEPT !.UMBAU_DATUM = remd, !.OUT = "OK"]

RECURSIVE SeqsUpTo(_, _)
SeqsUpTo(S, n) ==
    IF n = 0 THEN {<<>>}
    ELSE LET shorter == SeqsUpTo(S, n - 1)
         IN shorter \cup {Append(s, x) : s \in {t \in shorter : Len(t) = n - 1}, x \in S}

NodeLists == SeqsUpTo(Nodes, MaxRows)

----------------------------------------------------------------------------
(* Run state store *)

\* index of the last element of seq satisfying the key, 0 if none
LastMatch(records, key, from) ==
    LET at == {i \in from..Len(records) : renumber_row_key(records[i]) = key}
    IN IF at = {} THEN 0 ELSE CHOOSE i \in at : \A j \in at : j <= i

\* index of the first element of seq satisfying the key, 0 if none
RECURSIVE FirstMatch(_, _, _)
FirstMatch(records, key, from) ==
    IF from > Len(records) THEN 0
    ELSE IF renumber_row_key(records[from]) = key THEN from
    ELSE FirstMatch(records, key, from + 1)

RemoveAt(s, i) == [j \in 1..(Len(s) - 1) |-> IF j < i THEN s[j] ELSE s[j + 1]]

\* the carry-forward of one matched existing record into an incoming row
MergeRow(row, existing) ==
    [row EXCEPT
        !.MERGED = is_ok_status(existing.OUT),
        !.OUT = IF is_ok_status(existing.OUT) THEN existing.OUT ELSE row.OUT,
        !.IN_ = IF existing.IN_ # "" THEN existing.IN_ ELSE row.IN_,
        !.PLPN = IF existing.PLPN # "" THEN existing.PLPN ELSE row.PLPN,
        !.MWNO = IF existing.MWNO # "" THEN existing.MWNO ELSE row.MWNO,
        !.MOS100_STATUS = IF existing.MOS100_STATUS # "" THEN existing.MOS100_STATUS
                          ELSE row.MOS100_STATUS,
        !.MOS180_STATUS = IF existing.MOS180_STATUS # "" THEN existing.MOS180_STATUS
                          ELSE row.MOS180_STATUS,
        !.MOS050_STATUS = IF existing.MOS050_STATUS # "" THEN existing.MOS050_STATUS
                          ELSE row.MOS050_STATUS,
        !.STS046_ADD_STATUS = IF existing.STS046_ADD_STATUS # "" THEN existing.STS046_ADD_STATUS
                              ELSE row.STS046_ADD_STATUS,
        !.NEW_PART_ITNO = IF existing.NEW_PART_ITNO # "" THEN existing.NEW_PART_ITNO
                          ELSE row.NEW_PART_ITNO,
        !.NEW_PART_SER2 = IF existing.NEW_PART_SER2 # "" THEN existing.NEW_PART_SER2
                          ELSE row.NEW_PART_SER2]

\* the merge loop of _store_mi_rows: each incoming row takes the first
\* not yet consumed existing record with its key
RECURSIVE MergeRows(_, _)
MergeRows(rows, existing_records) ==
    IF rows = <<>> THEN <<>>
    ELSE LET row == Head(rows)
             at == FirstMatch(existing_records, renumber_row_key(row), 1)
         IN IF at = 0
            THEN <<row>> \o MergeRows(Tail(rows), existing_records)
            ELSE <<MergeRow(row, existing_records[at])>>
                     \o MergeRows(Tail(rows), RemoveAt(existing_records, at))

\* _store_mi_rows without the merge
store_mi_rows_overwrite(rows, exists, existing_records) == rows

\* _store_mi_rows for RENUMBER_WAGON with a non-empty row list: the new
\* table content (SEQ is the row's position)
store_mi_rows(rows, exists, existing_records) ==
    IF exists /\ existing_records # <<>> THEN MergeRows(rows, existing_records)
    ELSE rows

----------------------------------------------------------------------------
(* Job registry entry and logs *)

NoCur == [out |-> "", ok |-> FALSE, value |-> ""]

NoResult == [total |-> -1, ok |-> -1, error |-> -1]

\* _create_job: a registry entry in status running (total, processed and
\* results are set by the worker's first _update_job)
create_job(job_type) ==
    [type |-> job_type, status |-> "running", pc |-> "load",
     rows |-> <<>>, idx |-> 0, total |-> 0, processed |-> 0,
     ok_count |-> 0, error_count |-> 0, attempt |-> 0, pending |-> <<>>,
     step |-> "", plpn |-> "", mwno |-> "", candidates |-> <<>>, all_ok |-> TRUE,
     cur |-> NoCur, response |-> <<>>, results |-> <<>>, result |-> NoResult,
     error |-> ""]

NoJob == [create_job("none") EXCEPT !.status = "none", !.pc = "idle"]

\* _finish_job; the worker's locals are dropped with the thread
finish_job(j, status, result, error) ==
    [j EXCEPT !.status = status, !.result = result, !.error = error,
              !.pc = "idle", !.rows = <<>>, !.idx = 0, !.attempt = 0,
              !.pending = <<>>, !.cur = NoCur, !.ok_count = 0, !.error_count = 0,
              !.step = "", !.plpn = "", !.mwno = "", !.candidates = <<>>,
              !.all_ok = TRUE, !.response = <<>>]

\* one API.log record (_append_api_log)
ApiEntry(action, rowid, ok, error) ==
    [job |-> nJobs, action |-> action, row |-> rowid, ok |-> ok, error |-> error,
     dry_run |-> dryRun, parent |-> ""]

\* one call that reached the remote transaction service
RemoteEntry(program, rowid) == [job |-> nJobs, program |-> program, row |-> rowid]

\* A response of the MI interface as the classifier reads it: @code and
\* @type of the MIResponse, the entries of Messages.Message (MessageType,
\* MessageText), the field Message and the field ErrorMessage.  raises marks
\* a call that ends in an exception instead of a response.
MIResponse(code, type, messages, message, error_message) ==
    [code |-> code, type |-> type, messages |-> messages, Message |-> message,
     ErrorMessage |-> error_message, raises |-> FALSE]

MessageEntry(type, text) == [MessageType |-> type, MessageText |-> text]

MaxMessages == 2
ResponseCodes == {"", "MO96202", "MO12524", "MO12527", "MO12528"}
ResponseTypes == {"", "ServerReturnedNOK"}
MessageLists ==
    {<<>>,
     <<MessageEntry("1", "done")>>,
     <<MessageEntry("E", "failed")>>,
     <<MessageEntry("E", "failed"), MessageEntry("1", "done")>>,
     <<MessageEntry("1", "done"), MessageEntry("E", "failed")>>,
     <<MessageEntry("1", "asynchronous removal")>>,
     <<MessageEntry("E", "is installed in this position")>>,
     <<MessageEntry("", ""), MessageEntry("E", "status is 80")>>,
     <<MessageEntry("1", "error in position")>>}
\* a reply carries its text in the message list or in the field Message
Responses ==
    {response \in
        {MIResponse(code, type, messages, message, error_message) :
            code \in ResponseCodes, type \in ResponseTypes,
            messages \in {m \in MessageLists : Len(m) <= MaxMessages},
            message \in {"", "status is 80"}, error_message \in {"", "failed"}} :
       response.messages = <<>> \/ response.Message = ""}
Raised == [MIResponse("", "", <<>>, "", "") EXCEPT !.raises = TRUE]

\* the substring tests of the classifier on the texts of the model
MentionsAsync(text) == text = "asynchronous removal"
MentionsInstalled(text) == text = "is installed in this position"
MentionsStatus80(text) == text = "status is 80"
MentionsError(text) == text = "error in position"
ErrorTypes == {"2", "3", "4", "E", "ERROR"}

\* the first non-empty MessageText
RECURSIVE FirstMessageText(_)
FirstMessageText(messages) ==
    IF messages = <<>> THEN ""
    ELSE IF Head(messages).MessageText # "" THEN Head(messages).MessageText
    ELSE FirstMessageText(Tail(messages))

mi_extract_code_message(response) ==
    [code |-> response.code,
     message |-> IF FirstMessageText(response.messages) # ""
                 THEN FirstMessageText(response.messages)
                 ELSE response.Message]

\* _mi_error_message: NOK in the type or the code; then the message
\* entries, of which the test after the loop sees the last one only; then
\* ErrorMessage; then a Message that speaks of an error
mi_error_message(response) ==
    LET messages == response.messages
        last == messages[Len(messages)]
    IN IF response.type = "ServerReturnedNOK"
       THEN IF FirstMessageText(messages) # "" THEN FirstMessageText(messages)
            ELSE IF response.code # "" THEN response.code
            ELSE "ServerReturnedNOK"
       ELSE IF messages # <<>> /\ last.MessageType \in ErrorTypes
       THEN IF last.MessageText # "" THEN last.MessageText
            ELSE "MessageType=" \o last.MessageType
       ELSE IF messages # <<>> /\ MentionsError(last.MessageText)
       THEN last.MessageText
       ELSE IF response.ErrorMessage # "" THEN response.ErrorMessage
       ELSE IF MentionsError(response.Message) THEN response.Message
       ELSE ""

\* a classifier that looks for an error before the indicators
mi_status_error_first(response) ==
    LET code == mi_extract_code_message(response).code
        message == mi_extract_code_message(response).message
        error_message == mi_error_message(response)
    IN IF error_message # ""
       THEN [ok |-> FALSE, label |-> "ERROR", error |-> error_message]
       ELSE IF code = "MO96202" \/ MentionsAsync(message)
       THEN [ok |-> TRUE, label |-> "OK_ASYNC", error |-> ""]
       ELSE IF code = "MO12524" \/ MentionsInstalled(message)
       THEN [ok |-> TRUE, label |-> "OK_IDEMPOTENT", error |-> ""]
       ELSE IF code = "MO12527" \/ MentionsStatus80(message)
       THEN [ok |-> FALSE, label |-> "BLOCKING_WARNING",
             error |-> IF message # "" THEN message ELSE code]
       ELSE [ok |-> TRUE, label |-> "OK", error |-> ""]

mi_status(response) ==
    LET code == mi_extract_code_message(response).code
        message == mi_extract_code_message(response).message
        error_message == mi_error_message(response)
    IN IF code = "MO96202" \/ MentionsAsync(message)
       THEN [ok |-> TRUE, label |-> "OK_ASYNC", error |-> ""]
       ELSE IF code = "MO12524" \/ MentionsInstalled(message)
       THEN [ok |-> TRUE, label |-> "OK_IDEMPOTENT", error |-> ""]
       ELSE IF code = "MO12527" \/ MentionsStatus80(message)
       THEN [ok |-> FALSE, label |-> "BLOCKING_WARNING",
             error |-> IF message # "" THEN message ELSE code]
       ELSE IF error_message # ""
       THEN [ok |-> FALSE, label |-> "ERROR", error |-> error_message]
       ELSE [ok |-> TRUE, label |-> "OK", error |-> ""]

\* what call_m3_mi_get followed by _mi_error_message can yield for a
\* transaction without output value: a clean response, an error-shaped
\* response, or an exception (transport / HTTP error)
MiOutcomes == {"ok", "err", "exc"}

\* the error text of an outcome: _mi_error_message(response) or str(exc);
\* the model does not tell remote messages apart
ErrorText(outcome) == IF outcome \in {"err", "exc"} THEN "M3" ELSE ""

\* MOS125MI RemoveInstall can also answer that the part is installed in
\* this position (code MO12524)
InstallOutcomes == MiOutcomes \cup {"MO12524"}

\* the response behind an outcome
StepResponse(outcome) ==
    CASE outcome = "ok" -> MIResponse("", "", <<>>, "", "")
      [] outcome = "err" -> MIResponse("", "ServerReturnedNOK", <<>>, "", "")
      [] outcome = "MO12524" ->
            MIResponse("MO12524", "ServerReturnedNOK", <<>>,
                       "is installed in this position", "")
      [] outcome = "exc" -> Raised

\* what _call_ips_service yields: HTTP status below 400, HTTP status of
\* 400 or more, or an exception
IpsOutcomes == {"ok", "err", "exc"}

\* the rowids of the table in ascending / descending SEQ order
RowIds == [i \in 1..Len(table) |-> i]
RowIdsAscending == [i \in 1..Len(table) |-> i]
RowIdsDesc == [i \in 1..Len(table) |-> Len(table) + 1 - i]

\* one target per row
Singletons(rowids) == [i \in 1..Len(rowids) |-> <<rowids[i]>>]

Running == job.status = "running"

----------------------------------------------------------------------------
(* Removal history (MROUHI) of a wagon and the resolution of parents       *)

MaxHistory == 5     \* rows of one removal history

\* the rows the warehouse delivers: a position (CFGL, its segments), the
\* removed item and serial, its equipment type and the removal date
HistoryEntry(cfgl, itno, sern, eqtp, remd) ==
    [CFGL |-> cfgl, ITNO |-> itno, SERN |-> sern, EQTP |-> eqtp, REMD |-> remd,
     HIIT |-> "W", HISN |-> "w"]

\* two parts at one position below 1-1, one of them of equipment type 110,
\* a part without removal date, and an assembly at each of 1-1 and 1-2
HistoryEntries ==
    {HistoryEntry(<<"1", "1", "1">>, "C", "c", "", "20240101"),
     HistoryEntry(<<"1", "1", "1">>, "C", "c", "110", "20240101"),
     HistoryEntry(<<"1", "1", "1">>, "C", "c", "", "0"),
     HistoryEntry(<<"1", "1">>, "A", "a", "", "20240101"),
     HistoryEntry(<<"1", "2">>, "B", "b", "106", "20240101")}

\* a filter that takes only the empty date for blank
remd_is_empty(value) == value = ""

\* _remd_is_blank
remd_is_blank(value) == value \in {"", "0", "00000000"}

\* int(part) of a segment
SegmentNumber(part) ==
    CASE part \in {"1", "01"} -> 1
      [] part = "2" -> 2
      [] OTHER -> 0

\* _cfgl_segments
cfgl_segments(cfgl) == [i \in 1..Len(cfgl) |-> SegmentNumber(cfgl[i])]

\* the order of Python lists of integers
RECURSIVE ListLess(_, _)
ListLess(a, b) ==
    IF a = <<>> THEN b # <<>>
    ELSE IF b = <<>> THEN FALSE
    ELSE IF Head(a) # Head(b) THEN Head(a) < Head(b)
    ELSE ListLess(Tail(a), Tail(b))

\* the warehouse query ends with ORDER BY a.CFGL: the rows arrive in the
\* order of their positions (that of the segments, for one-digit segments)
OrderedByCfgl(rows) ==
    \A i \in 1..(Len(rows) - 1) :
        ~ListLess(cfgl_segments(rows[i + 1].CFGL), cfgl_segments(rows[i].CFGL))

Histories == {rows \in SeqsUpTo(HistoryEntries, MaxHistory) : OrderedByCfgl(rows)}

\* the order of the sort key (_cfgl_sort_key_desc(CFGL), idx); idx is the
\* decimal string of the row index, whose order is that of the index
\* below ten rows
SortKeyLess(a, b) ==
    LET sa == cfgl_segments(a.CFGL)
        sb == cfgl_segments(b.CFGL)
    IN \/ Len(sa) < Len(sb)
       \/ Len(sa) = Len(sb) /\ ListLess(sa, sb)
       \/ sa = sb /\ a.idx < b.idx

\* _parent_cfgl_for
parent_cfgl_for(cfgl) ==
    IF Len(cfgl) = 4 /\ cfgl[3] = "01" THEN <<cfgl[1], cfgl[2], cfgl[4]>>
    ELSE IF Len(cfgl) > 1 THEN SubSeq(cfgl, 1, Len(cfgl) - 1)
    ELSE <<>>

\* the order of Python strings on the identifiers of the model
TextOrder == <<"", "A", "B", "C", "W", "a", "b", "c", "w">>
TextRank(s) == CHOOSE i \in 1..Len(TextOrder) : TextOrder[i] = s

\* the order of the candidate sort key (SERN, ITNO)
CandidateLess(a, b) ==
    \/ TextRank(a.SERN) < TextRank(b.SERN)
    \/ a.SERN = b.SERN /\ TextRank(a.ITNO) < TextRank(b.ITNO)

\* sorted(parent_candidates, key = (SERN, ITNO)): a stable sort
RECURSIVE sorted_candidates(_)
sorted_candidates(s) ==
    IF s = <<>> THEN <<>>
    ELSE LET i == CHOOSE i \in 1..Len(s) :
                     /\ \A j \in 1..Len(s) : ~CandidateLess(s[j], s[i])
                     /\ \A j \in 1..(i - 1) : CandidateLess(s[i], s[j])
         IN <<s[i]>> \o sorted_candidates(RemoveAt(s, i))

\* the entries kept by the filter, each with the index of its row
RECURSIVE HistoryFilter(_, _)
HistoryFilter(rows, idx) ==
    IF rows = <<>> THEN <<>>
    ELSE LET rest == HistoryFilter(Tail(rows), idx + 1)
             entry == Head(rows)
         IN IF entry.CFGL = <<>> \/ remd_is_blank(entry.REMD) THEN rest
            ELSE <<[CFGL |-> entry.CFGL, ITNO |-> entry.ITNO, SERN |-> entry.SERN,
                    EQTP |-> entry.EQTP, REMD |-> entry.REMD,
                    HIIT |-> entry.HIIT, HISN |-> entry.HISN, idx |-> idx]>> \o rest

\* the keys of cfgl_map in insertion order
RECURSIVE CfglKeys(_)
CfglKeys(entries) ==
    IF entries = <<>> THEN <<>>
    ELSE LET before == CfglKeys(SubSeq(entries, 1, Len(entries) - 1))
             cfgl == entries[Len(entries)].CFGL
         IN IF \E k \in 1..Len(before) : before[k] = cfgl THEN before
            ELSE Append(before, cfgl)

IsKey(keys, cfgl) == \E k \in 1..Len(keys) : keys[k] = cfgl

\* cfgl_map: the entries of each position in the order of the rows
CfglMap(entries, keys) ==
    [k \in 1..Len(keys) |-> SelectSeq(entries, LAMBDA e : e.CFGL = keys[k])]

KeyAt(keys, cfgl) == CHOOSE k \in 1..Len(keys) : keys[k] = cfgl

\* whether a position is a sibling of parent_cfgl: another position of the
\* same depth below the same prefix
IsSibling(cfgl_key, parent_cfgl) ==
    /\ cfgl_key # parent_cfgl
    /\ Len(parent_cfgl) > 1
    /\ Len(cfgl_key) >= Len(parent_cfgl)
    /\ SubSeq(cfgl_key, 1, Len(parent_cfgl) - 1) = SubSeq(parent_cfgl, 1, Len(parent_cfgl) - 1)
    /\ Len(cfgl_segments(cfgl_key)) = Len(cfgl_segments(parent_cfgl))

\* the widening loop: the candidates of every sibling position, in the
\* order of the keys
RECURSIVE SiblingCandidates(_, _, _, _)
SiblingCandidates(cfgl_map, keys, parent_cfgl, k) ==
    IF k > Len(keys) THEN <<>>
    ELSE (IF IsSibling(keys[k], parent_cfgl) THEN cfgl_map[k] ELSE <<>>)
            \o SiblingCandidates(cfgl_map, keys, parent_cfgl, k + 1)

\* the candidates with the equipment type expected of the parent of a part
\* of type 110, all candidates if there is none
EqtpFilter(entry, parent_candidates) ==
    LET filtered == SelectSeq(parent_candidates, LAMBDA c : c.EQTP = "106")
    IN IF entry.EQTP = "110" /\ filtered # <<>> THEN filtered ELSE parent_candidates

\* one iteration of the loop over sorted_entries.  st holds cfgl_map,
\* child_indexes and preview; parent_candidates is the list object of
\* cfgl_map, so that extend() changes the map too
PreviewStep(st, entry, keys, cfgl_counts) ==
    LET cfgl == entry.CFGL
        parent_cfgl == parent_cfgl_for(cfgl)
        mapped == parent_cfgl # <<>> /\ IsKey(keys, parent_cfgl)
        found == IF mapped THEN st.cfgl_map[KeyAt(keys, parent_cfgl)] ELSE <<>>
        child_count == cfgl_counts[KeyAt(keys, cfgl)]
        widen == parent_cfgl # <<>> /\ child_count > Len(found)
        parent_candidates ==
            IF widen THEN found \o SiblingCandidates(st.cfgl_map, keys, parent_cfgl, 1)
            ELSE found
        cfgl_map == IF mapped /\ widen
                    THEN [st.cfgl_map EXCEPT ![KeyAt(keys, parent_cfgl)] = parent_candidates]
                    ELSE st.cfgl_map
        candidates == sorted_candidates(EqtpFilter(entry, parent_candidates))
        child_index == st.child_indexes[KeyAt(keys, cfgl)]
        chosen == IF Len(candidates) >= child_count THEN candidates[child_index + 1]
                  ELSE candidates[(child_index % Len(candidates)) + 1]
        assigned == parent_candidates # <<>>
    IN [cfgl_map |-> cfgl_map,
        child_indexes |-> IF assigned
                          THEN [st.child_indexes EXCEPT ![KeyAt(keys, cfgl)] = @ + 1]
                          ELSE st.child_indexes,
        preview |-> Append(st.preview,
            [CFGL |-> cfgl, ITNO |-> entry.ITNO, SERN |-> entry.SERN, REMD |-> entry.REMD,
             PARENT_CFGL |-> parent_cfgl,
             PARENT_ITNO |-> IF assigned /\ chosen.ITNO # "" THEN chosen.ITNO ELSE entry.HIIT,
             PARENT_SERN |-> IF assigned /\ chosen.SERN # "" THEN chosen.SERN ELSE entry.HISN])]

\* _build_mrouhi_parent_candidates: the candidates of one entry's position,
\* from a copy of the list of cfgl_map
ParentCandidates(entry, cfgl_map, keys) ==
    LET parent_cfgl == parent_cfgl_for(entry.CFGL)
        found == IF IsKey(keys, parent_cfgl) THEN cfgl_map[KeyAt(keys, parent_cfgl)] ELSE <<>>
        child_count == Len(cfgl_map[KeyAt(keys, entry.CFGL)])
        parent_candidates ==
            IF child_count > Len(found)
            THEN found \o SiblingCandidates(cfgl_map, keys, parent_cfgl, 1)
            ELSE found
    IN IF parent_cfgl = <<>> THEN <<>>
       ELSE sorted_candidates(EqtpFilter(entry, parent_candidates))

\* sorted(entries, key = (_cfgl_sort_key_desc(CFGL), idx), reverse = True)
RECURSIVE sorted_entries(_)
sorted_entries(S) ==
    IF S = {} THEN <<>>
    ELSE LET top == CHOOSE e \in S : \A o \in S \ {e} : SortKeyLess(o, e)
         IN <<top>> \o sorted_entries(S \ {top})

RECURSIVE PreviewLoop(_, _, _, _)
PreviewLoop(st, todo, keys, cfgl_counts) ==
    IF todo = <<>> THEN st.preview
    ELSE PreviewLoop(PreviewStep(st, Head(todo), keys, cfgl_counts), Tail(todo),
                     keys, cfgl_counts)

\* _build_mrouhi_preview_rows on the rows the warehouse delivers
build_mrouhi_preview_rows(rows) ==
    LET entries == HistoryFilter(rows, 0)
        keys == CfglKeys(entries)
        cfgl_map == CfglMap(entries, keys)
        cfgl_counts == [k \in 1..Len(keys) |-> Len(cfgl_map[k])]
    IN PreviewLoop([cfgl_map |-> cfgl_map,
                    child_indexes |-> [k \in 1..Len(keys) |-> 0],
                    preview |-> <<>>],
                   sorted_entries({entries[i] : i \in 1..Len(entries)}), keys, cfgl_counts)

----------------------------------------------------------------------------
(* The job registry as the polling endpoints read it, the derivation of    *)
(* identifiers on strings, the path filter of the split deployment, the    *)
(* resolver of a removal history, worker threads that overlap and the      *)
(* dict a poll returns are followed by specifications of their own;        *)
(* elsewhere they are at rest.                                             *)

NoPoll == [job_id |-> 0, status_code |-> 0, snapshot |-> <<>>]
NoParts == <<>>
NoRequest == <<>>
NoResolved == <<>>
NoWorkers == <<>>
NoSnapshot == <<>>

Quiet ==
    /\ jobs = <<>>
    /\ polled = NoPoll
    /\ parts = NoParts
    /\ served = NoRequest
    /\ resolved = NoResolved
    /\ workers = NoWorkers
    /\ snapshot = NoSnapshot

----------------------------------------------------------------------------
(* Identifiers as strings: a sequence of one-character strings             *)

\* str.endswith
endswith(s, suffix) ==
    Len(suffix) <= Len(s) /\ SubSeq(s, Len(s) - Len(suffix) + 1, Len(s)) = suffix

\* substring in string, for a one-character substring
Contains(s, ch) == \E i \in 1..Len(s) : s[i] = ch

\* str.strip and str.lstrip(ch)
RECURSIVE lstrip(_, _)
lstrip(s, ch) == IF s # <<>> /\ Head(s) = ch THEN lstrip(Tail(s), ch) ELSE s

RECURSIVE rstrip(_, _)
rstrip(s, ch) ==
    IF s # <<>> /\ s[Len(s)] = ch THEN rstrip(SubSeq(s, 1, Len(s) - 1), ch) ELSE s

strip(s) == rstrip(lstrip(s, " "), " ")

\* value.split(sep)[-1]: what follows the last separator
RECURSIVE LastPart(_, _)
LastPart(s, sep) ==
    IF Contains(s, sep) THEN LastPart(Tail(s), sep) ELSE s

\* _model_suffix
model_suffix(value) ==
    LET cleaned == strip(value)
    IN IF cleaned = <<>> THEN <<>>
       ELSE IF Contains(cleaned, "_") THEN LastPart(cleaned, "_")
       ELSE cleaned

\* _wagon_serial_suffix: without whitespace, the last ten characters,
\* without leading zeros unless nothing else is left
wagon_serial_suffix(value) ==
    LET cleaned == SelectSeq(value, LAMBDA ch : ch # " ")
        suffix == IF Len(cleaned) > 10 THEN SubSeq(cleaned, Len(cleaned) - 9, Len(cleaned))
                  ELSE cleaned
        trimmed == lstrip(suffix, "0")
    IN IF cleaned = <<>> THEN <<>>
       ELSE IF trimmed # <<>> THEN trimmed
       ELSE suffix

\* a derivation that replaces the tail of the item whatever it is
new_itno_unchecked(itno, old_model, new_model) ==
    IF Len(old_model) <= Len(itno)
    THEN SubSeq(itno, 1, Len(itno) - Len(old_model)) \o new_model
    ELSE new_model

\* the new item of _compute_part_updates for the two model suffixes
new_itno_for(itno, old_model, new_model) ==
    IF endswith(itno, <<"_">> \o old_model) \/ endswith(itno, old_model)
    THEN SubSeq(itno, 1, Len(itno) - Len(old_model)) \o new_model
    ELSE <<>>

\* _compute_part_updates on the strings of a row: (new_itno, new_ser2)
compute_part_updates_text(row, new_sern, new_baureihe) ==
    LET itno == row.ITNO
        ser2 == row.SER2
        old_model == model_suffix(row.WAGEN_ITNO)
        new_model == model_suffix(new_baureihe)
        replaced_itno == new_itno_for(itno, old_model, new_model)
        new_itno == IF itno # <<>> /\ old_model # <<>> /\ new_model # <<>>
                       /\ replaced_itno # itno
                    THEN replaced_itno ELSE <<>>
        old_suffix == wagon_serial_suffix(row.WAGEN_SERN)
        new_suffix == wagon_serial_suffix(new_sern)
        replaced_ser2 == SubSeq(ser2, 1, Len(ser2) - Len(old_suffix)) \o new_suffix
        new_ser2 == IF ser2 # <<>> /\ Contains(ser2, "-") /\ old_suffix # <<>>
                       /\ new_suffix # <<>> /\ endswith(ser2, old_suffix)
                       /\ replaced_ser2 # ser2
                    THEN replaced_ser2 ELSE <<>>
    IN <<new_itno, new_ser2>>

\* int(cfgr_value) of a string of digits
DigitValue(ch) ==
    CASE ch = "0" -> 0 [] ch = "1" -> 1 [] ch = "2" -> 2 [] ch = "3" -> 3
      [] ch = "4" -> 4 [] ch = "5" -> 5 [] ch = "6" -> 6 [] ch = "7" -> 7
      [] ch = "8" -> 8 [] ch = "9" -> 9 [] OTHER -> -1

isdigit(s) == s # <<>> /\ \A i \in 1..Len(s) : DigitValue(s[i]) >= 0

RECURSIVE int(_)
int(s) == IF s = <<>> THEN 0 ELSE 10 * int(SubSeq(s, 1, Len(s) - 1)) + DigitValue(s[Len(s)])

\* a params builder that treats no position as top level
top_level_never(cfgr) == FALSE

\* top_level of _build_mos125_params: the position is one of the numbers 1..4
top_level(cfgr) == isdigit(strip(cfgr)) /\ int(strip(cfgr)) \in {1, 2, 3, 4}

\* a or b of two strings
Or(a, b) == IF a # <<>> THEN a ELSE b

\* _build_mos125_params(row, mode="in"): the parent (NHAI, NHSI) and the
\* part (ITNI, BANI) of the install call, and its date
build_mos125_params_in(row) ==
    LET updated_parent ==
            compute_part_updates_text(
                [ITNO |-> row.MTRL, SER2 |-> row.SERN,
                 WAGEN_ITNO |-> row.WAGEN_ITNO, WAGEN_SERN |-> row.WAGEN_SERN],
                row.NEW_SERN, row.NEW_BAUREIHE)
    IN [TRDT |-> format_yyyymmdd(row.UMBAU_DATUM),
        NHAI |-> IF top_level(row.CFGL)
                 THEN Or(row.NEW_BAUREIHE, Or(row.WAGEN_ITNO, row.MTRL))
                 ELSE Or(updated_parent[1], row.MTRL),
        NHSI |-> IF top_level(row.CFGL)
                 THEN Or(row.NEW_SERN, Or(row.WAGEN_SERN, row.SERN))
                 ELSE Or(updated_parent[2], row.SERN),
        ITNI |-> Or(row.NEW_PART_ITNO, row.ITNO),
        BANI |-> Or(row.NEW_PART_SER2, row.SER2)]

----------------------------------------------------------------------------
(* Import of a hierarchy and entry of the target identifiers *)

Init ==
    /\ tableExists = FALSE
    /\ table = <<>>
    /\ dryRun \in BOOLEAN
    /\ retryLimit = TRUE
    /\ Quiet
    /\ job = NoJob
    /\ tauschExists = FALSE
    /\ tausch = <<>>
    /\ apiLog = <<>>
    /\ remoteLog = <<>>
    /\ nJobs = 0

\* GET /api/objstrk?store_table=RENUMBER_WAGON: the API log is cleared; an
\* empty answer deletes the rows, any other is stored with merge
objstrk ==
    /\ ~Running
    /\ \E nodes \in NodeLists :
         LET rows == [i \in 1..Len(nodes) |-> RawRow(nodes[i])]
         IN IF rows = <<>>
            THEN /\ table' = <<>>
                 /\ UNCHANGED tableExists
            ELSE /\ table' = store_mi_rows(rows, tableExists, table)
                 /\ tableExists' = TRUE
    /\ apiLog' = <<>>
    /\ UNCHANGED <<tauschExists, tausch, dryRun, retryLimit, jobs, polled, parts, served, job, remoteLog, nJobs,
                   resolved, workers, snapshot>>

\* POST /api/renumber/import_mrouhi: rows of the removal history, stored
\* with OUT = OK and their removal date
renumber_import_mrouhi ==
    /\ ~Running
    /\ \E nodes \in NodeLists \ {<<>>}, remd \in {"", "20240101"} :
         LET rows == [i \in 1..Len(nodes) |-> MrouhiRow(nodes[i], remd)]
         IN table' = store_mi_rows(rows, tableExists, table)
    /\ tableExists' = TRUE
    /\ UNCHANGED <<tauschExists, tausch, dryRun, retryLimit, jobs, polled, parts, served, job, apiLog, remoteLog, nJobs,
                   resolved, workers, snapshot>>

\* a row after the UPDATE of renumber_update
UpdatedRow(node, umbau_datum) ==
    [RawRow(node) EXCEPT
       !.UMBAU_DATUM = umbau_datum,
       !.NEW_PART_ITNO = compute_part_updates(node)[1],
       !.NEW_PART_SER2 = compute_part_updates(node)[2]]

\* POST /api/renumber/update: sets the target identifiers and conversion
\* date on every row, clears every step status, derives the part targets
renumber_update ==
    /\ ~Running
    /\ tableExists
    /\ \E umbau_datum \in DateInputs :
         table' = [i \in 1..Len(table) |->
                      [UpdatedRow(table[i].NODE, umbau_datum) EXCEPT
                          !.CFGL = table[i].CFGL, !.MTRL = table[i].MTRL,
                          !.SERN = table[i].SERN]]
    /\ UNCHANGED <<tauschExists, tausch, tableExists, dryRun, retryLimit, jobs, polled, parts, served, job, apiLog, remoteLog, nJobs,
                   resolved, workers, snapshot>>

----------------------------------------------------------------------------
(* Common steps of the background workers *)

\* POST handler: _create_job and the start of the worker thread
StartJob(job_type) ==
    /\ ~Running
    /\ nJobs < MaxJobs
    /\ job' = create_job(job_type)
    /\ nJobs' = nJobs + 1
    /\ UNCHANGED <<tauschExists, tausch, tableExists, table, dryRun, retryLimit, jobs, polled, parts, served, apiLog, remoteLog,
                   resolved, workers, snapshot>>

\* the worker's prologue: table check, row selection, _update_job(total,
\* processed=0, results=[]), then the ION API configuration and (live
\* only) the access token, either of which may raise
LoadJobWith(job_type, target_rows, candidates) ==
    /\ Running /\ job.type = job_type /\ job.pc = "load"
    /\ IF ~tableExists
       THEN job' = finish_job(job, "error", NoResult, "Tabelle nicht gefunden.")
       ELSE \E infra_ok \in BOOLEAN :
              LET loaded == [job EXCEPT !.rows = target_rows, !.total = Len(target_rows),
                                        !.processed = 0, !.results = <<>>,
                                        !.idx = 1, !.attempt = 1,
                                        !.candidates = candidates,
                                        !.pc = IF target_rows = <<>> THEN "finish" ELSE "item"]
              IN job' = IF infra_ok THEN loaded
                        ELSE finish_job(loaded, "error", NoResult, "ionapi")
    /\ UNCHANGED <<tauschExists, tausch, tableExists, table, dryRun, retryLimit, jobs, polled, parts, served, apiLog, remoteLog, nJobs,
                   resolved, workers, snapshot>>

LoadJob(job_type, target_rows) == LoadJobWith(job_type, target_rows, <<>>)

\* the branch without the dry-run case
StepBranchLive(required_missing, dry_run) ==
    IF required_missing THEN "invalid" ELSE "live"

\* a branch without the check of the required input
StepBranchUnchecked(required_missing, dry_run) ==
    IF dry_run THEN "dryrun" ELSE "live"

\* the three-way branch every step attempt takes: a missing required
\* input, dry-run, or the live call
StepBranch(required_missing, dry_run) ==
    IF required_missing THEN "invalid"
    ELSE IF dry_run THEN "dryrun"
    ELSE "live"

\* the worker's _finish_job(success) with its ok / error counters
FinishJob(job_type) ==
    /\ Running /\ job.type = job_type /\ job.pc = "finish"
    /\ job' = finish_job(job, "success",
                         [total |-> job.total, ok |-> job.ok_count, error |-> job.error_count], "")
    /\ UNCHANGED <<tauschExists, tausch, tableExists, table, dryRun, retryLimit, jobs, polled, parts, served, apiLog, remoteLog, nJobs,
                   resolved, workers, snapshot>>

\* a loop that gives up at the first failed item
AdvanceOrAbort(j) ==
    IF ~j.cur.ok THEN finish_job(j, "error", NoResult, ErrorText("err"))
    ELSE IF j.idx >= Len(j.rows)
    THEN [j EXCEPT !.pc = "finish", !.cur = NoCur, !.response = <<>>]
    ELSE [j EXCEPT !.idx = j.idx + 1, !.pc = "item", !.cur = NoCur, !.response = <<>>]

\* after an item's bookkeeping: on to the next row or to the end
Advance(j) ==
    IF j.idx >= Len(j.rows)
    THEN [j EXCEPT !.pc = "finish", !.cur = NoCur, !.response = <<>>]
    ELSE [j EXCEPT !.idx = j.idx + 1, !.pc = "item", !.cur = NoCur, !.response = <<>>]

----------------------------------------------------------------------------
(* The single-pass step jobs: one attempt per target, no retry.            *)
(*   renumber_run      MOS125MI RemoveInstall (remove), column OUT         *)
(*   renumber_install  MOS125MI RemoveInstall (install), column IN         *)
(*   renumber_mos180   MOS180MI Approve, column MOS180_STATUS              *)
(*   renumber_mos050   IPS MOS050 Montage, column MOS050_STATUS            *)

SinglePassJobs == {"renumber_run", "renumber_install", "mos180_approve", "mos050_montage"}

\* rows with a work order, grouped by MWNO in order of first appearance
\* (mwno_map of renumber_mos180)
RECURSIVE GroupByMwno(_, _)
GroupByMwno(rowids, groups) ==
    IF rowids = <<>> THEN groups
    ELSE LET r == Head(rowids)
             at == {g \in 1..Len(groups) : table[groups[g][1]].MWNO = table[r].MWNO}
         IN IF at = {}
            THEN GroupByMwno(Tail(rowids), Append(groups, <<r>>))
            ELSE LET g == CHOOSE x \in at : TRUE
                 IN GroupByMwno(Tail(rowids), [groups EXCEPT ![g] = Append(@, r)])

HasMwno(rowid) == table[rowid].MWNO # ""
HasMwnoAndNeedsRenumber(rowid) == table[rowid].MWNO # "" /\ needs_renumber(table[rowid])

\* the rows a job selects, as targets (each a sequence of rowids that
\* receive the target's outcome)
TargetRows(job_type) ==
    CASE job_type = "renumber_run" -> Singletons(RowIds)
      [] job_type = "renumber_install" -> Singletons(RowIdsDesc)
      [] job_type = "mos180_approve" -> GroupByMwno(SelectSeq(RowIds, HasMwno), <<>>)
      [] job_type = "mos050_montage" -> Singletons(SelectSeq(RowIds, HasMwnoAndNeedsRenumber))

\* the step's required input is missing from the row
RequiredMissing(job_type, row) ==
    IF job_type \in {"renumber_run", "renumber_install"}
    THEN format_yyyymmdd(row.UMBAU_DATUM) = ""     \* _build_mos125_params TRDT
    ELSE row.MWNO = ""

ApiAction(job_type) ==
    CASE job_type = "renumber_run" -> "ausbau"
      [] job_type = "renumber_install" -> "einbau"
      [] job_type = "mos180_approve" -> "mos180_approve"
      [] job_type = "mos050_montage" -> "ips_mos050_montage"

Program(job_type) ==
    CASE job_type \in {"renumber_run", "renumber_install"} -> "MOS125MI"
      [] job_type = "mos180_approve" -> "MOS180MI"
      [] job_type = "mos050_montage" -> "MOS050"

\* the outcome of an attempt that does not reach the remote service
InvalidOutcome(job_type) ==
    IF job_type \in {"renumber_run", "renumber_install"}
    THEN [out |-> "ERROR: UMBAU_DATUM fehlt", ok |-> FALSE, value |-> ""]
    ELSE [out |-> "NOK", ok |-> FALSE, value |-> ""]

DryRunOutcome(job_type) ==
    IF job_type \in {"renumber_run", "renumber_install"}
    THEN [out |-> "DRYRUN", ok |-> TRUE, value |-> ""]
    ELSE [out |-> "OK", ok |-> TRUE, value |-> ""]

\* an evaluation that takes every answer for an error
LiveOutcomeFailed(job_type, outcome) ==
    [out |-> "ERROR: " \o ErrorText("err"), ok |-> FALSE, value |-> ""]

\* the outcome of a live call: remove / install report the remote message,
\* approve / assembly a bare OK or NOK
LiveOutcome(job_type, outcome) ==
    IF job_type \in {"renumber_run", "renumber_install"}
    THEN IF outcome # "exc" /\ mi_error_message(StepResponse(outcome)) = ""
         THEN [out |-> "OK", ok |-> TRUE, value |-> ""]
         ELSE [out |-> "ERROR: " \o ErrorText(IF outcome = "exc" THEN "exc" ELSE "err"),
               ok |-> FALSE, value |-> ""]
    ELSE IF outcome = "ok" THEN [out |-> "OK", ok |-> TRUE, value |-> ""]
    ELSE [out |-> "NOK", ok |-> FALSE, value |-> ""]

\* the error text handed to _append_api_log
ApiError(cur) ==
    IF cur.ok THEN ""
    ELSE IF cur.out = "ERROR: UMBAU_DATUM fehlt" THEN "UMBAU_DATUM fehlt"
    ELSE IF cur.out = "NOK" THEN "NOK"
    ELSE ErrorText("err")

\* an UPDATE that is not carried out
SetColumnLater(t, job_type, rowids, value) == t

\* the UPDATE of the job's column on the given rowids
SetColumn(t, job_type, rowids, value) ==
    [i \in 1..Len(t) |->
        IF \E k \in 1..Len(rowids) : rowids[k] = i
        THEN CASE job_type = "renumber_run" -> [t[i] EXCEPT !.OUT = value]
               [] job_type = "renumber_install" -> [t[i] EXCEPT !.IN_ = value]
               [] job_type = "mos180_approve" -> [t[i] EXCEPT !.MOS180_STATUS = value]
               [] job_type = "mos050_montage" -> [t[i] EXCEPT !.MOS050_STATUS = value]
        ELSE t[i]]

\* the entry a job appends to its results list
ItemResult(rowid, cur) == [row |-> rowid, status |-> cur.out, ok |-> cur.ok]

\* approve and assembly append the result before the UPDATE, remove and
\* install after it together with the processed counter
ResultBeforeCommit(job_type) == job_type \in {"mos180_approve", "mos050_montage"}

single_pass_start == \E job_type \in SinglePassJobs : StartJob(job_type)

single_pass_load == \E job_type \in SinglePassJobs : LoadJob(job_type, TargetRows(job_type))

\* one loop iteration up to the API log record
single_pass_attempt ==
    /\ Running /\ job.type \in SinglePassJobs /\ job.pc = "item"
    /\ LET rowid == job.rows[job.idx][1]
           branch == StepBranch(RequiredMissing(job.type, table[rowid]), dryRun)
       IN \E outcome \in InstallOutcomes :
            LET cur == CASE branch = "invalid" -> InvalidOutcome(job.type)
                         [] branch = "dryrun" -> DryRunOutcome(job.type)
                         [] OTHER -> LiveOutcome(job.type, outcome)
            IN /\ branch # "live" => outcome = "ok"
               /\ outcome = "MO12524" => Program(job.type) = "MOS125MI"
               /\ remoteLog' = IF branch = "live"
                               THEN Append(remoteLog, RemoteEntry(Program(job.type), rowid))
                               ELSE remoteLog
               /\ apiLog' = Append(apiLog, ApiEntry(ApiAction(job.type), rowid, cur.ok, ApiError(cur)))
               /\ job' = [job EXCEPT !.pc = "commit", !.cur = cur,
                                     !.response = IF branch = "live"
                                                  THEN <<StepResponse(outcome)>>
                                                  ELSE <<>>,
                                     !.results = IF ResultBeforeCommit(job.type)
                                                 THEN Append(@, ItemResult(rowid, cur))
                                                 ELSE @]
    /\ UNCHANGED <<tauschExists, tausch, tableExists, table, dryRun, retryLimit, jobs, polled, parts, served, nJobs,
                   resolved, workers, snapshot>>

\* UPDATE ... SET <column>=? WHERE rowid=?; commit
single_pass_commit ==
    /\ Running /\ job.type \in SinglePassJobs /\ job.pc = "commit"
    /\ table' = SetColumn(table, job.type, job.rows[job.idx], job.cur.out)
    /\ job' = [job EXCEPT !.pc = "publish"]
    /\ UNCHANGED <<tauschExists, tausch, tableExists, dryRun, retryLimit, jobs, polled, parts, served, apiLog, remoteLog, nJobs,
                   resolved, workers, snapshot>>

\* processed = idx, the per-item result, the ok / error counters
single_pass_publish ==
    /\ Running /\ job.type \in SinglePassJobs /\ job.pc = "publish"
    /\ job' = Advance([job EXCEPT
                 !.processed = job.idx,
                 !.results = IF ResultBeforeCommit(job.type) THEN @
                             ELSE Append(@, ItemResult(job.rows[job.idx][1], job.cur)),
                 !.ok_count = IF job.cur.ok THEN job.ok_count + 1 ELSE job.ok_count,
                 !.error_count = IF job.cur.ok THEN job.error_count ELSE job.error_count + 1])
    /\ UNCHANGED <<tauschExists, tausch, tableExists, table, dryRun, retryLimit, jobs, polled, parts, served, apiLog, remoteLog, nJobs,
                   resolved, workers, snapshot>>

single_pass_finish == \E job_type \in SinglePassJobs : FinishJob(job_type)

----------------------------------------------------------------------------
(* The value-producing step jobs, retried pass by pass:                    *)
(*   renumber_mos170   MOS170MI AddProp, yields PLPN                       *)
(*   renumber_cms100   CMS100MI Lst_PLPN_MWNO, yields MWNO                 *)

PassJobs == {"mos170_addprop", "mos170_plpn"}

\* what a value-producing call yields: a response carrying the value, a
\* response without error and without the value, an error, an exception
PlpnValues == {"PLPN1"}
MwnoValues == {"MWNO1", "MWNO2"}
ValueOutcomes == {"novalue", "err", "exc"} \cup PlpnValues \cup MwnoValues

NeedsRenumberRow(rowid) == needs_renumber(table[rowid])
PlpnWithoutMwno(rowid) == table[rowid].PLPN # "" /\ table[rowid].MWNO = ""

\* target_rows of renumber_mos170, _load_rows of renumber_cms100
PassTargets(job_type) ==
    IF job_type = "mos170_addprop"
    THEN Singletons(SelectSeq(RowIds, NeedsRenumberRow))
    ELSE Singletons(SelectSeq(RowIds, PlpnWithoutMwno))

\* required_missing of renumber_mos170 (_build_mos170_params: ITNO, BANO,
\* STDT), "not plpn" of renumber_cms100
PassRequiredMissing(job_type, row) ==
    IF job_type = "mos170_addprop"
    THEN NodeITNO(row.NODE) = "" \/ NodeSER2(row.NODE) = ""
         \/ format_yyyymmdd(row.UMBAU_DATUM) = ""
    ELSE row.PLPN = ""

PassValues(job_type) == IF job_type = "mos170_addprop" THEN PlpnValues ELSE MwnoValues
\* "MAX and attempt >= MAX", "MAX and attempt > MAX": a maximum of 0
\* switches the test off (NoLimit: a test that never ends a loop)
NoLimit(max, attempt) == FALSE
AtLimit(max, attempt) == retryLimit /\ attempt >= max
PastLimit(max, attempt) == retryLimit /\ attempt > max

RETRY_MAX(job_type) ==
    IF job_type = "mos170_addprop" THEN MOS170_RETRY_MAX ELSE CMS100_RETRY_MAX

\* ok and the extracted value (_extract_plpn / _extract_mwno of the
\* response if ok, else "") of one attempt
PassOutcome(job_type, branch, outcome) ==
    CASE branch = "invalid" ->
            [out |-> IF job_type = "mos170_addprop" THEN "Pflichtfelder fehlen" ELSE "PLPN fehlt",
             ok |-> FALSE, value |-> ""]
      [] branch = "dryrun" -> [out |-> "", ok |-> TRUE, value |-> ""]
      [] OTHER ->
            IF outcome \in {"err", "exc"}
            THEN [out |-> ErrorText(outcome), ok |-> FALSE, value |-> ""]
            ELSE [out |-> "", ok |-> TRUE,
                  value |-> IF outcome = "novalue" THEN "" ELSE outcome]

pass_start == \E job_type \in PassJobs : StartJob(job_type)

pass_load == \E job_type \in PassJobs : LoadJob(job_type, PassTargets(job_type))

\* the attempt on one pending row up to the extraction of the value
pass_attempt ==
    /\ Running /\ job.type \in PassJobs /\ job.pc = "item"
    /\ job.attempt <= MaxPasses
    /\ LET rowid == job.rows[job.idx][1]
           branch == StepBranch(PassRequiredMissing(job.type, table[rowid]), dryRun)
       IN \E outcome \in {"novalue", "err", "exc"} \cup PassValues(job.type) :
            /\ branch # "live" => outcome = "novalue"
            /\ remoteLog' = IF branch = "live"
                            THEN Append(remoteLog,
                                        RemoteEntry(IF job.type = "mos170_addprop"
                                                    THEN "MOS170MI" ELSE "CMS100MI", rowid))
                            ELSE remoteLog
            /\ job' = [job EXCEPT !.pc = "commit",
                                  !.cur = PassOutcome(job.type, branch, outcome)]
    /\ UNCHANGED <<tauschExists, tausch, tableExists, table, dryRun, retryLimit, jobs, polled, parts, served, apiLog, nJobs,
                   resolved, workers, snapshot>>

\* UPDATE ... SET "PLPN"=? / "MWNO"=? WHERE rowid=?; commit
pass_commit ==
    /\ Running /\ job.type \in PassJobs /\ job.pc = "commit"
    /\ LET rowid == job.rows[job.idx][1]
       IN table' = IF job.type = "mos170_addprop"
                   THEN [table EXCEPT ![rowid].PLPN = job.cur.value]
                   ELSE [table EXCEPT ![rowid].MWNO = job.cur.value]
    /\ job' = [job EXCEPT !.pc = "publish"]
    /\ UNCHANGED <<tauschExists, tausch, tableExists, dryRun, retryLimit, jobs, polled, parts, served, apiLog, remoteLog, nJobs,
                   resolved, workers, snapshot>>

\* a pass loop that stops one pass early
EndOfPassEarly(j, still_pending) ==
    LET done == [j EXCEPT !.pc = "finish", !.cur = NoCur]
    IN IF still_pending = <<>> \/ dryRun \/ AtLimit(RETRY_MAX(j.type), j.attempt + 1) THEN done
       ELSE [j EXCEPT !.total = j.total + Len(still_pending), !.attempt = j.attempt + 1,
                      !.cur = NoCur, !.pc = "item", !.rows = still_pending,
                      !.pending = <<>>, !.idx = 1]

\* what follows the last row of a pass: stop, or account the rows still
\* without value and go round again
EndOfPass(j, still_pending) ==
    LET max == RETRY_MAX(j.type)
        done == [j EXCEPT !.pc = "finish", !.cur = NoCur]
    IN IF still_pending = <<>> \/ dryRun THEN done
       ELSE IF j.type = "mos170_plpn" /\ AtLimit(max, j.attempt) THEN done
       ELSE LET more == [j EXCEPT !.total = j.total + Len(still_pending),
                                  !.attempt = j.attempt + 1,
                                  !.cur = NoCur]
            IN IF PastLimit(max, more.attempt)
               THEN [more EXCEPT !.pc = "finish", !.pending = still_pending]
               ELSE [more EXCEPT !.pc = "item", !.rows = still_pending,
                                 !.pending = <<>>, !.idx = 1]

\* the API log records of the attempt, next_pending, processed and the
\* counters; after the last row of the pass the loop's exit conditions
pass_publish ==
    /\ Running /\ job.type \in PassJobs /\ job.pc = "publish"
    /\ LET rowid == job.rows[job.idx][1]
           cur == job.cur
           first == ApiEntry(IF job.type = "mos170_addprop" THEN "ih_addprop"
                             ELSE "mos170_plpn", rowid, cur.ok, cur.out)
           missing == IF job.type = "mos170_addprop"
                      THEN ApiEntry("ih_addprop_missing_plpn", rowid, FALSE, "PLPN fehlt")
                      ELSE ApiEntry("mos170_plpn_missing_mwno", rowid, FALSE, "QOMWNO fehlt")
           next_pending == IF job.type = "mos170_addprop" /\ cur.value = ""
                           THEN Append(job.pending, <<rowid>>) ELSE job.pending
           counted == [job EXCEPT
                         !.processed = job.processed + 1,
                         !.pending = next_pending,
                         !.ok_count = IF cur.ok THEN @ + 1 ELSE @,
                         !.error_count = IF cur.ok THEN @ ELSE @ + 1]
       IN /\ apiLog' = IF cur.value = "" THEN apiLog \o <<first, missing>>
                       ELSE Append(apiLog, first)
          /\ job' = IF job.idx < Len(job.rows)
                    THEN [counted EXCEPT !.idx = job.idx + 1, !.pc = "item", !.cur = NoCur]
                    ELSE EndOfPass(counted,
                                   IF job.type = "mos170_addprop" THEN next_pending
                                   ELSE PassTargets("mos170_plpn"))
    /\ UNCHANGED <<tauschExists, tausch, tableExists, table, dryRun, retryLimit, jobs, polled, parts, served, remoteLog, nJobs,
                   resolved, workers, snapshot>>

pass_finish == \E job_type \in PassJobs : FinishJob(job_type)

----------------------------------------------------------------------------
(* renumber_mos100: IPS MOS100 Chg_SERN, retried per row, column           *)
(* MOS100_STATUS                                                           *)

Mos100Pending(rowid) ==
    /\ table[rowid].MWNO # ""
    /\ table[rowid].NEW_PART_ITNO # "" \/ table[rowid].NEW_PART_SER2 # ""
    /\ table[rowid].MOS100_STATUS = ""

renumber_mos100_start == StartJob("ips_mos100_chgsern")

renumber_mos100_load ==
    LoadJob("ips_mos100_chgsern", Singletons(SelectSeq(RowIds, Mos100Pending)))

\* one round of the row's while loop: the call, the API log record, and
\* the loop's exits
renumber_mos100_attempt ==
    /\ Running /\ job.type = "ips_mos100_chgsern" /\ job.pc = "item"
    /\ job.attempt <= MaxPasses
    /\ LET rowid == job.rows[job.idx][1]
           branch == StepBranch(table[rowid].MWNO = "", dryRun)
       IN \E outcome \in IpsOutcomes :
            LET cur == CASE branch = "invalid" -> [out |-> "NOK", ok |-> FALSE, value |-> ""]
                         [] branch = "dryrun" -> [out |-> "DRYRUN", ok |-> TRUE, value |-> ""]
                         [] OTHER -> [out |-> IF outcome = "ok" THEN "OK" ELSE "NOK",
                                      ok |-> outcome = "ok", value |-> ""]
                leave == cur.ok \/ dryRun \/ AtLimit(MOS100_RETRY_MAX, job.attempt)
            IN /\ branch # "live" => outcome = "ok"
               /\ remoteLog' = IF branch = "live"
                               THEN Append(remoteLog, RemoteEntry("MOS100", rowid))
                               ELSE remoteLog
               /\ apiLog' = Append(apiLog,
                                   ApiEntry("ips_mos100_chgsern", rowid, cur.ok,
                                            IF branch = "invalid" THEN "MWNO fehlt"
                                            ELSE IF cur.ok THEN "" ELSE ErrorText("err")))
               /\ job' = IF leave THEN [job EXCEPT !.pc = "commit", !.cur = cur]
                         ELSE [job EXCEPT !.attempt = job.attempt + 1, !.cur = cur]
    /\ UNCHANGED <<tauschExists, tausch, tableExists, table, dryRun, retryLimit, jobs, polled, parts, served, nJobs,
                   resolved, workers, snapshot>>

renumber_mos100_commit ==
    /\ Running /\ job.type = "ips_mos100_chgsern" /\ job.pc = "commit"
    /\ table' = [table EXCEPT ![job.rows[job.idx][1]].MOS100_STATUS = job.cur.out]
    /\ job' = [job EXCEPT !.pc = "publish"]
    /\ UNCHANGED <<tauschExists, tausch, tableExists, dryRun, retryLimit, jobs, polled, parts, served, apiLog, remoteLog, nJobs,
                   resolved, workers, snapshot>>

renumber_mos100_publish ==
    /\ Running /\ job.type = "ips_mos100_chgsern" /\ job.pc = "publish"
    /\ job' = Advance([job EXCEPT
                 !.processed = job.processed + 1,
                 !.attempt = 1,
                 !.ok_count = IF job.cur.ok THEN @ + 1 ELSE @,
                 !.error_count = IF job.cur.ok THEN @ ELSE @ + 1])
    /\ UNCHANGED <<tauschExists, tausch, tableExists, table, dryRun, retryLimit, jobs, polled, parts, served, apiLog, remoteLog, nJobs,
                   resolved, workers, snapshot>>

renumber_mos100_finish == FinishJob("ips_mos100_chgsern")

----------------------------------------------------------------------------
(* renumber_sts046_add: STS046MI AddGenItem once per generic item of the   *)
(* wagon, column STS046_ADD_STATUS on every row of the wagon               *)

\* the generic items of a wagon: the new series' ACMC, then the wagon's own
\* if different; [""] if WAGENUMBAU knows neither
GeitLists == {<<"">>, <<"new_geit">>, <<"new_geit", "old_geit">>}

renumber_sts046_add_start == StartJob("sts046_addgenitem")

\* the rows of the table belong to one wagon
renumber_sts046_add_load ==
    IF tableExists /\ table = <<>>
    THEN /\ Running /\ job.type = "sts046_addgenitem" /\ job.pc = "load"
         /\ job' = finish_job(job, "success", [total |-> 0, ok |-> 0, error |-> 0], "")
         /\ UNCHANGED <<tauschExists, tausch, tableExists, table, dryRun, retryLimit, jobs, polled, parts, served, apiLog, remoteLog, nJobs,
                   resolved, workers, snapshot>>
    ELSE \E geits \in GeitLists : LoadJobWith("sts046_addgenitem", <<RowIds>>, geits)

\* one generic item of the wagon
renumber_sts046_add_attempt ==
    /\ Running /\ job.type = "sts046_addgenitem" /\ job.pc = "item"
    /\ LET rowid == job.rows[job.idx][1]
           geit == job.candidates[job.attempt]
           branch == StepBranch(geit = "", dryRun)
       IN \E outcome \in MiOutcomes :
            LET ok == branch = "dryrun" \/ (branch = "live" /\ outcome = "ok")
                all_ok == job.all_ok /\ ok
                last == job.attempt >= Len(job.candidates)
            IN /\ branch # "live" => outcome = "ok"
               /\ remoteLog' = IF branch = "live"
                               THEN Append(remoteLog, RemoteEntry("STS046MI", rowid))
                               ELSE remoteLog
               /\ apiLog' = Append(apiLog,
                                   ApiEntry("sts046_addgenitem", rowid, ok,
                                            IF branch = "invalid" THEN "WHLO/GEIT/ITNO fehlt"
                                            ELSE IF ok THEN "" ELSE ErrorText("err")))
               /\ job' = IF last
                         THEN [job EXCEPT
                                 !.pc = "commit", !.all_ok = all_ok,
                                 !.cur = [out |-> IF all_ok THEN "OK" ELSE "NOK",
                                          ok |-> ok, value |-> ""],
                                 !.results = Append(@, [row |-> rowid,
                                                        status |-> IF all_ok THEN "OK" ELSE "NOK",
                                                        ok |-> all_ok])]
                         ELSE [job EXCEPT !.attempt = job.attempt + 1, !.all_ok = all_ok]
    /\ UNCHANGED <<tauschExists, tausch, tableExists, table, dryRun, retryLimit, jobs, polled, parts, served, nJobs,
                   resolved, workers, snapshot>>

renumber_sts046_add_commit ==
    /\ Running /\ job.type = "sts046_addgenitem" /\ job.pc = "commit"
    /\ table' = [i \in 1..Len(table) |->
                   IF \E k \in 1..Len(job.rows[job.idx]) : job.rows[job.idx][k] = i
                   THEN [table[i] EXCEPT !.STS046_ADD_STATUS = job.cur.out]
                   ELSE table[i]]
    /\ job' = [job EXCEPT !.pc = "publish"]
    /\ UNCHANGED <<tauschExists, tausch, tableExists, dryRun, retryLimit, jobs, polled, parts, served, apiLog, remoteLog, nJobs,
                   resolved, workers, snapshot>>

\* processed = idx; the counters follow the last generic item's ok
renumber_sts046_add_publish ==
    /\ Running /\ job.type = "sts046_addgenitem" /\ job.pc = "publish"
    /\ job' = Advance([job EXCEPT
                 !.processed = job.idx,
                 !.attempt = 1,
                 !.all_ok = TRUE,
                 !.ok_count = IF job.cur.ok THEN @ + 1 ELSE @,
                 !.error_count = IF job.cur.ok THEN @ ELSE @ + 1])
    /\ UNCHANGED <<tauschExists, tausch, tableExists, table, dryRun, retryLimit, jobs, polled, parts, served, apiLog, remoteLog, nJobs,
                   resolved, workers, snapshot>>

renumber_sts046_add_finish == FinishJob("sts046_addgenitem")

----------------------------------------------------------------------------
(* _run_rollback_job: MOS125MI RemoveInstall (install) for the rows whose  *)
(* removal went through, with a change of parent on an idempotency         *)
(* conflict; column ROLLBACK                                               *)

\* what the install call yields: a response, or an exception
RollbackOutcomes == Responses \cup {Raised}
retry_codes == {"MO12524", "MO12528"}

\* the row's parent as _build_mos125_params resolves it, and the parent
\* candidates _build_mrouhi_parent_candidates finds for the row's position
\* (one entry per history row: a parent removed twice is listed twice)
current_parent == "P1"
CandidateLists == {<<>>, <<"P1">>, <<"P1", "P2">>, <<"P2", "P3">>, <<"P1", "P2", "P2">>}

\* ok and the ROLLBACK status of a response (_mi_status; "ERROR: " and the
\* status label if not ok; the exception text after an exception)
RollbackOutcome(outcome) ==
    IF outcome.raises
    THEN [out |-> "ERROR: " \o ErrorText("exc"), ok |-> FALSE, value |-> ""]
    ELSE LET status == mi_status(outcome)
         IN [out |-> IF ~status.ok THEN "ERROR: " \o status.label
                     ELSE IF status.label = "OK_IDEMPOTENT" THEN "OK: bereits installiert"
                     ELSE status.label,
             ok |-> status.ok, value |-> ""]

\* one response of each kind the rollback tells apart: clean, installed in
\* this position, MO12528, another error, an exception
ResponseClasses ==
    {MIResponse("", "", <<>>, "", ""),
     MIResponse("MO12524", "ServerReturnedNOK", <<>>, "", ""),
     MIResponse("MO12528", "ServerReturnedNOK", <<>>, "", ""),
     MIResponse("", "", <<>>, "", "failed"),
     Raised}
ClassResponse == \A i \in 1..Len(job.response) : job.response[i] \in ResponseClasses

\* the code that sends the worker to the next parent candidate
RetryCode(outcome) ==
    ~outcome.raises /\ mi_extract_code_message(outcome).code \in retry_codes

\* _run_rollback_job is the worker of renumber_rollback and the second
\* half of the worker of renumber_rollback_from_mrouhi
RollbackJobs == {"renumber_rollback", "renumber_rollback_mrouhi"}

RemovedRow(rowid) == table[rowid].OUT \in {"OK", "DRYRUN"}
OtherParent(parent) == parent # current_parent

\* the API log record of an install call: log_params names the parent
RollbackEntry(rowid, parent, cur) ==
    [ApiEntry("rollback", rowid, cur.ok, ApiError(cur)) EXCEPT !.parent = parent]

run_rollback_job_start == StartJob("renumber_rollback")

run_rollback_job_load ==
    LET target_rows == Singletons(SelectSeq(RowIds, RemovedRow))
    IN \E candidates \in CandidateLists :
         /\ target_rows = <<>> => candidates = <<>>
         /\ \E job_type \in RollbackJobs :
              /\ job_type = "renumber_rollback_mrouhi" => job.step = "rollback"
              /\ LoadJobWith(job_type, target_rows, candidates)

\* the first call for a row
run_rollback_job_attempt ==
    /\ Running /\ job.type \in RollbackJobs /\ job.pc = "item"
    /\ LET rowid == job.rows[job.idx][1]
           branch == StepBranch(format_yyyymmdd(table[rowid].UMBAU_DATUM) = "", dryRun)
       IN \E outcome \in RollbackOutcomes :
            LET cur == CASE branch = "invalid" ->
                               [out |-> "ERROR: UMBAU_DATUM fehlt", ok |-> FALSE, value |-> ""]
                         [] branch = "dryrun" -> [out |-> "DRYRUN", ok |-> TRUE, value |-> ""]
                         [] OTHER -> RollbackOutcome(outcome)
                others == SelectSeq(job.candidates, OtherParent)
                response == IF branch = "live" THEN <<outcome>> ELSE <<>>
                fallback == /\ branch = "live" /\ RetryCode(outcome)
                            /\ Len(job.candidates) > 1 /\ others # <<>>
            IN /\ branch # "live" => outcome = MIResponse("", "", <<>>, "", "")
               /\ remoteLog' = IF branch = "live"
                               THEN Append(remoteLog, RemoteEntry("MOS125MI", rowid))
                               ELSE remoteLog
               /\ apiLog' = Append(apiLog, RollbackEntry(rowid, current_parent, cur))
               /\ job' = IF fallback
                         THEN [job EXCEPT !.pc = "fallback", !.cur = cur, !.pending = others,
                                          !.response = response]
                         ELSE [job EXCEPT !.pc = "commit", !.cur = cur,
                                          !.response = response]
    /\ UNCHANGED <<tauschExists, tausch, tableExists, table, dryRun, retryLimit, jobs, polled, parts, served, nJobs,
                   resolved, workers, snapshot>>

\* the same call against the next other parent candidate
run_rollback_job_fallback ==
    /\ Running /\ job.type \in RollbackJobs /\ job.pc = "fallback"
    /\ LET rowid == job.rows[job.idx][1]
       IN \E outcome \in RollbackOutcomes :
            LET cur == RollbackOutcome(outcome)
                rest == Tail(job.pending)
            IN /\ remoteLog' = Append(remoteLog, RemoteEntry("MOS125MI", rowid))
               /\ apiLog' = Append(apiLog, RollbackEntry(rowid, Head(job.pending), cur))
               /\ job' = IF RetryCode(outcome) /\ rest # <<>>
                         THEN [job EXCEPT !.cur = cur, !.pending = rest,
                                          !.response = <<outcome>>]
                         ELSE [job EXCEPT !.pc = "commit", !.cur = cur, !.pending = <<>>,
                                          !.response = <<outcome>>]
    /\ UNCHANGED <<tauschExists, tausch, tableExists, table, dryRun, retryLimit, jobs, polled, parts, served, nJobs,
                   resolved, workers, snapshot>>

run_rollback_job_commit ==
    /\ Running /\ job.type \in RollbackJobs /\ job.pc = "commit"
    /\ table' = [table EXCEPT ![job.rows[job.idx][1]].ROLLBACK = job.cur.out]
    /\ job' = [job EXCEPT !.pc = "publish"]
    /\ UNCHANGED <<tauschExists, tausch, tableExists, dryRun, retryLimit, jobs, polled, parts, served, apiLog, remoteLog, nJobs,
                   resolved, workers, snapshot>>

run_rollback_job_publish ==
    /\ Running /\ job.type \in RollbackJobs /\ job.pc = "publish"
    /\ job' = Advance([job EXCEPT
                 !.processed = job.idx,
                 !.results = Append(@, ItemResult(job.rows[job.idx][1], job.cur)),
                 !.ok_count = IF job.cur.ok THEN @ + 1 ELSE @,
                 !.error_count = IF job.cur.ok THEN @ ELSE @ + 1])
    /\ UNCHANGED <<tauschExists, tausch, tableExists, table, dryRun, retryLimit, jobs, polled, parts, served, apiLog, remoteLog, nJobs,
                   resolved, workers, snapshot>>

run_rollback_job_finish == \E job_type \in RollbackJobs : FinishJob(job_type)

----------------------------------------------------------------------------
(* renumber_rollback_from_mrouhi: import of the removal history of a wagon *)
(* from the warehouse, followed by _run_rollback_job                       *)

\* the node a history row stands for
HistoryNode(entry) ==
    IF entry.ITNO = "" THEN "noitem"
    ELSE IF entry.SERN = "" THEN "noserial"
    ELSE "part"

\* mapped_rows: one row per preview row with the resolved parent as MTRL /
\* SERN, the removal date and OUT = OK
MappedRows(preview_rows) ==
    [i \in 1..Len(preview_rows) |->
        [MrouhiRow(HistoryNode(preview_rows[i]), preview_rows[i].REMD) EXCEPT
            !.CFGL = preview_rows[i].CFGL,
            !.MTRL = preview_rows[i].PARENT_ITNO,
            !.SERN = preview_rows[i].PARENT_SERN]]

\* the rows that count for the wagon and the emptiness check
ValidHistoryRow(entry) ==
    entry.HIIT # "" /\ entry.HISN # "" /\ entry.ITNO # "" /\ ~remd_is_blank(entry.REMD)

\* the error the import ends with, "" if it goes through
ImportFailure(rows, mapped_rows) ==
    IF rows = <<>> THEN "Keine MROUHI Daten gefunden."
    ELSE IF SelectSeq(rows, ValidHistoryRow) = <<>>
    THEN "Keine gueltigen MROUHI Zeilen gefunden."
    ELSE IF mapped_rows = <<>> THEN "Keine gueltigen MROUHI Zeilen fuer Rollback."
    ELSE ""

renumber_rollback_from_mrouhi_start == StartJob("renumber_rollback_mrouhi")

\* the first half of the worker; the warehouse query may fail, and it
\* answers both queries of the import with the same rows, which the
\* worker holds in rows until _run_rollback_job selects its targets
renumber_rollback_from_mrouhi_import ==
    /\ Running /\ job.type = "renumber_rollback_mrouhi" /\ job.pc = "load" /\ job.step = ""
    /\ \E rows \in Histories, answered \in BOOLEAN :
         LET mapped_rows == MappedRows(build_mrouhi_preview_rows(rows))
             failure == IF answered THEN ImportFailure(rows, mapped_rows)
                        ELSE "Compass SQL fehlgeschlagen"
             started == Append(apiLog, ApiEntry("mrouhi_import_start", 0, TRUE, ""))
         IN IF failure # ""
            THEN /\ ~answered => rows = <<>>
                 /\ job' = finish_job(job, "error", NoResult, failure)
                 /\ apiLog' = started
                 /\ UNCHANGED <<tableExists, table,
                   resolved, workers, snapshot>>
            ELSE /\ table' = store_mi_rows(mapped_rows, tableExists, table)
                 /\ tableExists' = TRUE
                 /\ apiLog' = Append(started, ApiEntry("mrouhi_import", 0, TRUE, ""))
                 /\ job' = [job EXCEPT !.step = "rollback", !.rows = rows]
    /\ UNCHANGED <<tauschExists, tausch, dryRun, retryLimit, jobs, polled, parts, served, remoteLog, nJobs,
                   resolved, workers, snapshot>>

----------------------------------------------------------------------------
(* renumber_wagon: the wagon itself (the first row) through MOS170 AddProp, *)
(* CMS100 lookup, MOS100 Chg_SERN, MOS180 Approve and CRS335 UpdCtrlObj in *)
(* one job that stops at the first failed step.  Modelled with             *)
(* WAGON_RENUMBER_FIXED_PLPN and WAGON_RENUMBER_SKIP_MOS170 unset.         *)

\* raise HTTPException(...) inside the worker: caught by its handler
Raise(j, detail) == finish_job(j, "error", NoResult, detail)

\* processed += 1; _update_job(processed=processed)
Count(j) == [j EXCEPT !.processed = j.processed + 1]

renumber_wagon_start == StartJob("wagon_renumber")

\* the first row, its required fields, the wagon's LAGERORT in WAGENUMBAU
renumber_wagon_load ==
    /\ Running /\ job.type = "wagon_renumber" /\ job.pc = "load"
    /\ \E lagerort, infra_ok \in BOOLEAN :
         job' = IF ~tableExists THEN Raise(job, "Tabelle nicht gefunden.")
                ELSE IF table = <<>> THEN Raise(job, "Keine Daten in der Umnummerierungs-Tabelle.")
                ELSE IF table[1].UMBAU_DATUM = "" THEN Raise(job, "Pflichtfelder für Wagen fehlen.")
                ELSE IF ~lagerort THEN Raise(job, "LAGERORT fehlt für den Wagen.")
                ELSE IF ~infra_ok THEN Raise([job EXCEPT !.total = 5], "ionapi")
                ELSE [job EXCEPT !.rows = <<<<1>>>>, !.idx = 1, !.total = 5, !.processed = 0,
                                 !.results = <<>>, !.pc = "mos170", !.attempt = 1]
    /\ UNCHANGED <<tauschExists, tausch, tableExists, table, dryRun, retryLimit, jobs, polled, parts, served, apiLog, remoteLog, nJobs,
                   resolved, workers, snapshot>>

\* MOS170 AddProp, a single attempt
renumber_wagon_mos170 ==
    /\ Running /\ job.type = "wagon_renumber" /\ job.pc = "mos170"
    /\ LET branch == StepBranch(format_yyyymmdd(table[1].UMBAU_DATUM) = "", dryRun)
       IN \E outcome \in {"novalue", "err", "exc"} \cup PlpnValues :
            LET cur == PassOutcome("mos170_addprop", branch, outcome)
            IN /\ branch # "live" => outcome = "novalue"
               /\ remoteLog' = IF branch = "live"
                               THEN Append(remoteLog, RemoteEntry("MOS170MI", 1))
                               ELSE remoteLog
               /\ apiLog' = Append(apiLog, ApiEntry("wagon_mos170_addprop", 1, cur.ok, cur.out))
               /\ job' = IF ~cur.ok /\ ~dryRun
                         THEN Raise(Count(job), "MOS170 AddProp fehlgeschlagen.")
                         ELSE [Count(job) EXCEPT !.pc = "plpn", !.plpn = cur.value]
    /\ UNCHANGED <<tauschExists, tausch, tableExists, table, dryRun, retryLimit, jobs, polled, parts, served, nJobs,
                   resolved, workers, snapshot>>

\* the PLPN of the response, "DRYRUN" in dry-run; persisted if present
renumber_wagon_plpn ==
    /\ Running /\ job.type = "wagon_renumber" /\ job.pc = "plpn"
    /\ LET plpn == IF dryRun THEN "DRYRUN" ELSE job.plpn
       IN /\ apiLog' = Append(apiLog,
                              ApiEntry("wagon_mos170_plpn", 1, plpn # "",
                                       IF plpn # "" THEN "" ELSE "PLPN fehlt nach MOS170"))
          /\ IF plpn = ""
             THEN /\ job' = Raise(Count(job), "PLPN fehlt nach MOS170.")
                  /\ UNCHANGED table
             ELSE /\ job' = [Count(job) EXCEPT !.pc = "cms100", !.plpn = plpn, !.attempt = 1]
                  /\ table' = [table EXCEPT ![1].PLPN = plpn]
    /\ UNCHANGED <<tauschExists, tausch, tableExists, dryRun, retryLimit, jobs, polled, parts, served, remoteLog, nJobs,
                   resolved, workers, snapshot>>

\* one round of the CMS100 lookup loop; after the loop the MWNO is
\* persisted, or its absence raised
renumber_wagon_cms100 ==
    /\ Running /\ job.type = "wagon_renumber" /\ job.pc = "cms100"
    /\ job.attempt <= MaxPasses
    /\ \E outcome \in {"novalue", "err", "exc"} \cup MwnoValues :
         LET cur == IF dryRun THEN [out |-> "", ok |-> TRUE, value |-> "DRYRUN"]
                    ELSE PassOutcome("mos170_plpn", "live", outcome)
             mwno == IF cur.value # "" THEN cur.value ELSE job.mwno
             counted == [Count(job) EXCEPT !.mwno = mwno]
             leave == mwno # "" \/ dryRun
                      \/ PastLimit(WAGON_CMS100_RETRY_MAX, job.attempt + 1)
         IN /\ dryRun => outcome = "novalue"
            /\ remoteLog' = IF dryRun THEN remoteLog
                            ELSE Append(remoteLog, RemoteEntry("CMS100MI", 1))
            /\ apiLog' = Append(apiLog,
                                ApiEntry("wagon_cms100_lst_plpn_mwno", 1, cur.ok, cur.out))
            /\ IF ~leave
               THEN /\ job' = [counted EXCEPT !.attempt = job.attempt + 1]
                    /\ UNCHANGED table
               ELSE IF mwno = ""
               THEN /\ job' = Raise(counted, "MWNO fehlt nach CMS100.")
                    /\ UNCHANGED table
               ELSE /\ job' = [counted EXCEPT !.pc = "mos100", !.attempt = 1]
                    /\ table' = [table EXCEPT ![1].MWNO = mwno]
    /\ UNCHANGED <<tauschExists, tausch, tableExists, dryRun, retryLimit, jobs, polled, parts, served, nJobs,
                   resolved, workers, snapshot>>

\* one round of the MOS100 Chg_SERN loop
renumber_wagon_mos100 ==
    /\ Running /\ job.type = "wagon_renumber" /\ job.pc = "mos100"
    /\ job.attempt <= MaxPasses
    /\ \E outcome \in IpsOutcomes :
         LET ok == dryRun \/ outcome = "ok"
             leave == ok \/ dryRun \/ AtLimit(WAGON_MOS100_RETRY_MAX, job.attempt)
         IN /\ dryRun => outcome = "ok"
            /\ remoteLog' = IF dryRun THEN remoteLog
                            ELSE Append(remoteLog, RemoteEntry("MOS100", 1))
            /\ apiLog' = Append(apiLog,
                                ApiEntry("wagon_ips_mos100_chgsern", 1, ok,
                                         IF ok THEN "" ELSE ErrorText("err")))
            /\ job' = IF ~leave THEN [job EXCEPT !.attempt = job.attempt + 1]
                      ELSE IF ~ok THEN Raise(Count(job), "MOS100 Chg_SERN fehlgeschlagen.")
                      ELSE [Count(job) EXCEPT !.pc = "mos180", !.attempt = 1]
    /\ UNCHANGED <<tauschExists, tausch, tableExists, table, dryRun, retryLimit, jobs, polled, parts, served, nJobs,
                   resolved, workers, snapshot>>

\* MOS180 Approve
renumber_wagon_mos180 ==
    /\ Running /\ job.type = "wagon_renumber" /\ job.pc = "mos180"
    /\ \E outcome \in MiOutcomes :
         LET ok == dryRun \/ outcome = "ok"
         IN /\ dryRun => outcome = "ok"
            /\ remoteLog' = IF dryRun THEN remoteLog
                            ELSE Append(remoteLog, RemoteEntry("MOS180MI", 1))
            /\ apiLog' = Append(apiLog,
                                ApiEntry("wagon_mos180_approve", 1, ok,
                                         IF ok THEN "" ELSE ErrorText("err")))
            /\ job' = IF ~ok THEN Raise(Count(job), "MOS180 Approve fehlgeschlagen.")
                      ELSE [Count(job) EXCEPT !.pc = "crs335"]
    /\ UNCHANGED <<tauschExists, tausch, tableExists, table, dryRun, retryLimit, jobs, polled, parts, served, nJobs,
                   resolved, workers, snapshot>>

\* CRS335 UpdCtrlObj with the wagon's ACRF (or CRS335_ACRF), then the end
\* of the job
renumber_wagon_crs335 ==
    /\ Running /\ job.type = "wagon_renumber" /\ job.pc = "crs335"
    /\ \E acrf \in BOOLEAN, outcome \in MiOutcomes :
         LET branch == StepBranch(~acrf, dryRun)
             ok == branch = "dryrun" \/ (branch = "live" /\ outcome = "ok")
             counted == Count(job)
         IN /\ branch # "live" => outcome = "ok"
            /\ remoteLog' = IF branch = "live"
                            THEN Append(remoteLog, RemoteEntry("CRS335MI", 1))
                            ELSE remoteLog
            /\ apiLog' = Append(apiLog,
                                ApiEntry("wagon_crs335_updctrlobj", 1, ok,
                                         IF branch = "invalid" THEN "ACRF fehlt"
                                         ELSE IF ok THEN "" ELSE ErrorText("err")))
            /\ job' = IF ~ok THEN Raise(counted, "CRS335 fehlgeschlagen.")
                      ELSE finish_job(counted, "success",
                                      [total |-> counted.processed, ok |-> counted.processed,
                                       error |-> 0], "")
    /\ UNCHANGED <<tauschExists, tausch, tableExists, table, dryRun, retryLimit, jobs, polled, parts, served, nJobs,
                   resolved, workers, snapshot>>

----------------------------------------------------------------------------
(* The part-number exchange: teilenummer_prepare fills TEILENUMMER_TAUSCH, *)
(* teilenummer_run takes each of its rows through eight steps and drops    *)
(* the table.                                                              *)

\* the checked parts: with or without a serial number (A_SERN)
TauschKinds == {"part", "noserial"}
KindLists == SeqsUpTo(TauschKinds, MaxTauschRows)

TauschRow(kind, new_sern) ==
    [KIND |-> kind, NSERN |-> new_sern, OUT_STATUS |-> "", MOS170_STATUS |-> "", PLPN |-> "",
     CMS100_STATUS |-> "", MWNO |-> "", MOS100_STATUS |-> "", MOS180_STATUS |-> "",
     MOS050_STATUS |-> "", IN_STATUS |-> ""]

\* POST /api/teilenummer/prepare: the table is created anew from the
\* checked rows of the source table
teilenummer_prepare ==
    /\ ~Running
    /\ \E kinds \in KindLists, new_sern \in {"", "NSERN"} :
         tausch' = [i \in 1..Len(kinds) |-> TauschRow(kinds[i], new_sern)]
    /\ tauschExists' = TRUE
    /\ UNCHANGED <<tableExists, table, dryRun, retryLimit, jobs, polled, parts, served, job, apiLog, remoteLog, nJobs,
                   resolved, workers, snapshot>>

\* status_label if ok else "<status_label>: <error_message>"
TeilStatus(label, ok, error_message) ==
    IF ok THEN label ELSE label \o ": " \o error_message

\* ok, status label and error message of an MI call through _mi_status
TeilMi(branch, outcome, missing_message) ==
    CASE branch = "invalid" -> [ok |-> FALSE, label |-> "ERROR", error |-> missing_message]
      [] branch = "dryrun" -> [ok |-> TRUE, label |-> "DRYRUN", error |-> ""]
      [] OTHER -> IF outcome \in {"err", "exc"}
                  THEN [ok |-> FALSE, label |-> "ERROR", error |-> ErrorText(outcome)]
                  ELSE [ok |-> TRUE, label |-> "OK", error |-> ""]

\* ok, status label and error message of an IPS call
TeilIps(branch, outcome) ==
    CASE branch = "invalid" -> [ok |-> FALSE, label |-> "NOK", error |-> "MWNO fehlt"]
      [] branch = "dryrun" -> [ok |-> TRUE, label |-> "DRYRUN", error |-> ""]
      [] OTHER -> [ok |-> outcome = "ok", label |-> IF outcome = "ok" THEN "OK" ELSE "NOK",
                   error |-> IF outcome = "ok" THEN "" ELSE ErrorText("err")]

\* a value-producing call counts as failed if its response lacks the value
TeilValue(res, value, missing_message) ==
    IF res.ok /\ value = ""
    THEN [ok |-> FALSE, label |-> "ERROR", error |-> missing_message]
    ELSE res

\* the eight steps of a row in order
NextTeilStep(step) ==
    CASE step = "ausbau" -> "mos170"
      [] step = "mos170" -> "plpn"
      [] step = "plpn" -> "cms100"
      [] step = "cms100" -> "mos100"
      [] step = "mos100" -> "mos180"
      [] step = "mos180" -> "mos050"
      [] step = "mos050" -> "einbau"

\* on to the row's next step
TeilGo(j, step) == [Count(j) EXCEPT !.pc = NextTeilStep(step), !.attempt = 1]

\* another round of a retried step: total_steps += 1; attempt += 1
TeilAgain(j) == [Count(j) EXCEPT !.total = j.total + 1, !.attempt = j.attempt + 1]

teilenummer_run_start == StartJob("teilenummer_run")

teilenummer_run_load ==
    /\ Running /\ job.type = "teilenummer_run" /\ job.pc = "load"
    /\ \E infra_ok \in BOOLEAN :
         job' = IF ~tauschExists THEN Raise(job, "Tabelle nicht gefunden.")
                ELSE IF tausch = <<>> THEN Raise(job, "Keine Daten in TEILENUMMER_TAUSCH.")
                ELSE IF tausch[1].NSERN # "" /\ Len(tausch) > 1
                THEN Raise(job, "Neue Seriennummer gesetzt, aber mehr als 1 Datensatz vorhanden.")
                ELSE IF ~infra_ok THEN Raise([job EXCEPT !.total = Len(tausch) * 8], "ionapi")
                ELSE [job EXCEPT !.rows = Singletons([i \in 1..Len(tausch) |-> i]),
                                 !.idx = 1, !.total = Len(tausch) * 8, !.processed = 0,
                                 !.results = <<>>, !.pc = "ausbau", !.attempt = 1]
    /\ UNCHANGED <<tableExists, table, tauschExists, tausch, dryRun, retryLimit, jobs, polled, parts, served, apiLog, remoteLog, nJobs,
                   resolved, workers, snapshot>>

\* MOS125MI Ausbau and MOS125MI Einbau: the conversion date is the
\* preparation's timestamp and never missing
teilenummer_run_mos125 ==
    /\ Running /\ job.type = "teilenummer_run" /\ job.pc \in {"ausbau", "einbau"}
    /\ \E outcome \in MiOutcomes :
         LET branch == StepBranch(FALSE, dryRun)
             res == TeilMi(branch, outcome, "UMBAU_DATUM fehlt")
             status == TeilStatus(res.label, res.ok, res.error)
         IN /\ branch # "live" => outcome = "ok"
            /\ remoteLog' = IF branch = "live"
                            THEN Append(remoteLog, RemoteEntry("MOS125MI", job.idx))
                            ELSE remoteLog
            /\ apiLog' = Append(apiLog,
                                ApiEntry("teilenummer_" \o job.pc, job.idx, res.ok, res.error))
            /\ tausch' = IF job.pc = "ausbau"
                         THEN [tausch EXCEPT ![job.idx].OUT_STATUS = status]
                         ELSE [tausch EXCEPT ![job.idx].IN_STATUS = status]
            /\ job' = IF job.pc = "ausbau" THEN TeilGo(job, "ausbau")
                      ELSE IF job.idx < Len(job.rows)
                      THEN [Count(job) EXCEPT !.idx = job.idx + 1, !.pc = "ausbau",
                                              !.attempt = 1, !.plpn = "", !.mwno = ""]
                      ELSE [Count(job) EXCEPT !.pc = "finish"]
    /\ UNCHANGED <<tableExists, table, tauschExists, dryRun, retryLimit, jobs, polled, parts, served, nJobs,
                   resolved, workers, snapshot>>

\* one round of MOS170MI AddProp
teilenummer_run_mos170 ==
    /\ Running /\ job.type = "teilenummer_run" /\ job.pc = "mos170"
    /\ job.attempt <= MaxPasses
    /\ \E outcome \in {"novalue", "err", "exc"} \cup PlpnValues :
         LET required_missing == tausch[job.idx].KIND = "noserial"
             branch == StepBranch(required_missing, dryRun)
             plpn == IF branch = "live" /\ outcome \in PlpnValues THEN outcome ELSE ""
             res == TeilValue(TeilMi(branch, outcome, "Pflichtfelder fehlen"), plpn, "PLPN fehlt")
         IN /\ branch # "live" => outcome = "novalue"
            /\ remoteLog' = IF branch = "live"
                            THEN Append(remoteLog, RemoteEntry("MOS170MI", job.idx))
                            ELSE remoteLog
            /\ apiLog' = Append(apiLog,
                                ApiEntry("teilenummer_mos170_addprop", job.idx, res.ok, res.error))
            /\ tausch' = [tausch EXCEPT
                            ![job.idx].MOS170_STATUS = TeilStatus(res.label, res.ok, res.error),
                            ![job.idx].PLPN = plpn]
            /\ job' = IF plpn # "" \/ dryRun \/ required_missing
                         \/ AtLimit(MOS170_RETRY_MAX, job.attempt)
                      THEN [TeilGo(job, "mos170") EXCEPT !.plpn = plpn]
                      ELSE TeilAgain(job)
    /\ UNCHANGED <<tableExists, table, tauschExists, dryRun, retryLimit, jobs, polled, parts, served, nJobs,
                   resolved, workers, snapshot>>

\* MOS170 PLPN: an API log record only
teilenummer_run_plpn ==
    /\ Running /\ job.type = "teilenummer_run" /\ job.pc = "plpn"
    /\ apiLog' = Append(apiLog,
                        ApiEntry("teilenummer_mos170_plpn", job.idx, job.plpn # "",
                                 IF job.plpn # "" THEN "" ELSE "PLPN fehlt"))
    /\ job' = TeilGo(job, "plpn")
    /\ UNCHANGED <<tableExists, table, tauschExists, tausch, dryRun, retryLimit, jobs, polled, parts, served, remoteLog, nJobs,
                   resolved, workers, snapshot>>

\* one round of CMS100MI Lst_PLPN_MWNO
teilenummer_run_cms100 ==
    /\ Running /\ job.type = "teilenummer_run" /\ job.pc = "cms100"
    /\ job.attempt <= MaxPasses
    /\ \E outcome \in {"novalue", "err", "exc"} \cup MwnoValues :
         LET branch == StepBranch(job.plpn = "", dryRun)
             mwno == CASE branch = "dryrun" -> "DRYRUN"
                       [] branch = "live" /\ outcome \in MwnoValues -> outcome
                       [] OTHER -> ""
             res == TeilValue(TeilMi(branch, outcome, "PLPN fehlt"), mwno, "MWNO fehlt")
         IN /\ branch # "live" => outcome = "novalue"
            /\ remoteLog' = IF branch = "live"
                            THEN Append(remoteLog, RemoteEntry("CMS100MI", job.idx))
                            ELSE remoteLog
            /\ apiLog' = Append(apiLog,
                                ApiEntry("teilenummer_cms100_lst_plpn_mwno", job.idx,
                                         res.ok, res.error))
            /\ tausch' = [tausch EXCEPT
                            ![job.idx].CMS100_STATUS = TeilStatus(res.label, res.ok, res.error),
                            ![job.idx].MWNO = mwno]
            /\ job' = IF mwno # "" \/ dryRun \/ job.plpn = ""
                         \/ AtLimit(CMS100_RETRY_MAX, job.attempt)
                      THEN [TeilGo(job, "cms100") EXCEPT !.mwno = mwno]
                      ELSE TeilAgain(job)
    /\ UNCHANGED <<tableExists, table, tauschExists, dryRun, retryLimit, jobs, polled, parts, served, nJobs,
                   resolved, workers, snapshot>>

\* one round of IPS MOS100 Chg_SERN; the status is written after the loop
teilenummer_run_mos100 ==
    /\ Running /\ job.type = "teilenummer_run" /\ job.pc = "mos100"
    /\ job.attempt <= MaxPasses
    /\ \E outcome \in IpsOutcomes :
         LET branch == StepBranch(job.mwno = "", dryRun)
             res == TeilIps(branch, outcome)
             leave == res.ok \/ dryRun \/ AtLimit(MOS100_RETRY_MAX, job.attempt)
         IN /\ branch # "live" => outcome = "ok"
            /\ remoteLog' = IF branch = "live"
                            THEN Append(remoteLog, RemoteEntry("MOS100", job.idx))
                            ELSE remoteLog
            /\ apiLog' = Append(apiLog,
                                ApiEntry("teilenummer_ips_mos100_chgsern", job.idx,
                                         res.ok, res.error))
            /\ IF leave
               THEN /\ tausch' = [tausch EXCEPT ![job.idx].MOS100_STATUS = res.label]
                    /\ job' = TeilGo(job, "mos100")
               ELSE /\ UNCHANGED tausch
                    /\ job' = [job EXCEPT !.attempt = job.attempt + 1]
    /\ UNCHANGED <<tableExists, table, tauschExists, dryRun, retryLimit, jobs, polled, parts, served, nJobs,
                   resolved, workers, snapshot>>

\* MOS180MI Approve
teilenummer_run_mos180 ==
    /\ Running /\ job.type = "teilenummer_run" /\ job.pc = "mos180"
    /\ \E outcome \in MiOutcomes :
         LET branch == StepBranch(job.mwno = "", dryRun)
             res == TeilMi(branch, outcome, "MWNO fehlt")
         IN /\ branch # "live" => outcome = "ok"
            /\ remoteLog' = IF branch = "live"
                            THEN Append(remoteLog, RemoteEntry("MOS180MI", job.idx))
                            ELSE remoteLog
            /\ apiLog' = Append(apiLog,
                                ApiEntry("teilenummer_mos180_approve", job.idx, res.ok, res.error))
            /\ tausch' = [tausch EXCEPT
                            ![job.idx].MOS180_STATUS = TeilStatus(res.label, res.ok, res.error)]
            /\ job' = TeilGo(job, "mos180")
    /\ UNCHANGED <<tableExists, table, tauschExists, dryRun, retryLimit, jobs, polled, parts, served, nJobs,
                   resolved, workers, snapshot>>

\* IPS MOS050 Montage
teilenummer_run_mos050 ==
    /\ Running /\ job.type = "teilenummer_run" /\ job.pc = "mos050"
    /\ \E outcome \in IpsOutcomes :
         LET branch == StepBranch(job.mwno = "", dryRun)
             res == TeilIps(branch, outcome)
         IN /\ branch # "live" => outcome = "ok"
            /\ remoteLog' = IF branch = "live"
                            THEN Append(remoteLog, RemoteEntry("MOS050", job.idx))
                            ELSE remoteLog
            /\ apiLog' = Append(apiLog,
                                ApiEntry("teilenummer_ips_mos50_montage", job.idx,
                                         res.ok, res.error))
            /\ tausch' = [tausch EXCEPT ![job.idx].MOS050_STATUS = res.label]
            /\ job' = TeilGo(job, "mos050")
    /\ UNCHANGED <<tableExists, table, tauschExists, dryRun, retryLimit, jobs, polled, parts, served, nJobs,
                   resolved, workers, snapshot>>

\* DROP TABLE IF EXISTS, then _finish_job(success) with ok = processed and
\* error = 0
teilenummer_run_finish ==
    /\ Running /\ job.type = "teilenummer_run" /\ job.pc = "finish"
    /\ tausch' = <<>>
    /\ tauschExists' = FALSE
    /\ job' = finish_job(job, "success",
                         [total |-> job.total, ok |-> job.processed, error |-> 0], "")
    /\ UNCHANGED <<tableExists, table, dryRun, retryLimit, jobs, polled, parts, served, apiLog, remoteLog, nJobs,
                   resolved, workers, snapshot>>

----------------------------------------------------------------------------
(* The run-state store with the remove step: imports, update and remove    *)
(* jobs in any order, one operation at a time.                             *)

StoreJobs == {"renumber_run"}

Next ==
    \/ objstrk
    \/ renumber_import_mrouhi
    \/ renumber_update
    \/ single_pass_start /\ job'.type \in StoreJobs
    \/ single_pass_load
    \/ single_pass_attempt
    \/ single_pass_commit
    \/ single_pass_publish
    \/ single_pass_finish

Spec == Init /\ [][Next]_vars

----------------------------------------------------------------------------
(* C1: for a row whose OUT is OK and that a re-import of its hierarchy     *)
(* merged, a following remove job leaves OUT as it is and issues no        *)
(* MOS125MI call for it.                                                   *)

LastRemote(log) == log[Len(log)]

C1_CompletedRemoveIsNoOp ==
    [][(Running /\ job.type = "renumber_run") =>
         \A i \in 1..Len(table) :
            (table[i].MERGED /\ is_ok_status(table[i].OUT)) =>
               /\ table'[i].OUT = table[i].OUT
               /\ (remoteLog' # remoteLog => LastRemote(remoteLog').row # i)]_vars

----------------------------------------------------------------------------
(* The step jobs over a store as earlier sessions left it: the table is    *)
(* kept in the SQLite file and outlives the server process, the job        *)
(* registry does not.                                                      *)

\* hierarchies of the stored wagons
StoredNodeLists == {<<"part">>, <<"part", "part">>, <<"part", "noserial">>,
                    <<"noitem", "part">>}

\* how far the pipeline got before: target identifiers entered, planned
\* orders created (PLPN), work orders looked up (MWNO)
Stages == {"updated", "planned", "ordered"}

\* the row of a stored wagon at a stage: add-property and lookup only ever
\* succeed on rows that need renumbering and have their required fields
StoredRow(node, umbau_datum, stage, mwno) ==
    LET row == UpdatedRow(node, umbau_datum)
        has_plpn == /\ stage \in {"planned", "ordered"}
                    /\ needs_renumber(row)
                    /\ ~PassRequiredMissing("mos170_addprop", row)
    IN [row EXCEPT !.PLPN = IF has_plpn THEN "PLPN1" ELSE "",
                   !.MWNO = IF has_plpn /\ stage = "ordered" THEN mwno ELSE ""]

StoredTables ==
    {[i \in 1..Len(nodes) |->
        StoredRow(nodes[i], umbau_datum, stage, IF i = 1 THEN "MWNO1" ELSE second)] :
       nodes \in StoredNodeLists, umbau_datum \in DateInputs, stage \in Stages,
       second \in MwnoValues}

InitSteps ==
    /\ \/ tableExists = FALSE /\ table = <<>>
       \/ tableExists = TRUE /\ table \in StoredTables
    /\ dryRun \in BOOLEAN
    /\ retryLimit = TRUE
    /\ Quiet
    /\ job = NoJob
    /\ tauschExists = FALSE
    /\ tausch = <<>>
    /\ apiLog = <<>>
    /\ remoteLog = <<>>
    /\ nJobs = 0

NextSteps ==
    \/ single_pass_start
    \/ single_pass_load
    \/ single_pass_attempt
    \/ single_pass_commit
    \/ single_pass_publish
    \/ single_pass_finish
    \/ pass_start
    \/ pass_load
    \/ pass_attempt
    \/ pass_commit
    \/ pass_publish
    \/ pass_finish
    \/ renumber_mos100_start
    \/ renumber_mos100_load
    \/ renumber_mos100_attempt
    \/ renumber_mos100_commit
    \/ renumber_mos100_publish
    \/ renumber_mos100_finish
    \/ renumber_sts046_add_start
    \/ renumber_sts046_add_load
    \/ renumber_sts046_add_attempt
    \/ renumber_sts046_add_commit
    \/ renumber_sts046_add_publish
    \/ renumber_sts046_add_finish
    \/ run_rollback_job_start
    \/ run_rollback_job_load
    \/ run_rollback_job_attempt /\ ClassResponse'
    \/ run_rollback_job_fallback /\ ClassResponse'
    \/ run_rollback_job_commit
    \/ run_rollback_job_publish
    \/ run_rollback_job_finish
    \/ renumber_wagon_start
    \/ renumber_wagon_load
    \/ renumber_wagon_mos170
    \/ renumber_wagon_plpn
    \/ renumber_wagon_cms100
    \/ renumber_wagon_mos100
    \/ renumber_wagon_mos180
    \/ renumber_wagon_crs335

SpecSteps == InitSteps /\ [][NextSteps]_vars

\* the step jobs that iterate over the rows of the table
StepJobs == SinglePassJobs \cup PassJobs \cup {"ips_mos100_chgsern"}
ItemJobs == StepJobs \cup {"sts046_addgenitem", "renumber_rollback"}

\* the column a job writes for a row, and what it writes of an outcome
OwnValue(job_type, row) ==
    CASE job_type = "renumber_run" -> row.OUT
      [] job_type = "renumber_install" -> row.IN_
      [] job_type = "mos180_approve" -> row.MOS180_STATUS
      [] job_type = "mos050_montage" -> row.MOS050_STATUS
      [] job_type = "mos170_addprop" -> row.PLPN
      [] job_type = "mos170_plpn" -> row.MWNO
      [] job_type = "ips_mos100_chgsern" -> row.MOS100_STATUS
      [] job_type = "sts046_addgenitem" -> row.STS046_ADD_STATUS
      [] job_type = "renumber_rollback" -> row.ROLLBACK

Recorded(job_type, cur) == IF job_type \in PassJobs THEN cur.value ELSE cur.out

\* the step already completed for the row: an OK status, or the value
Completed(job_type, row) ==
    IF job_type \in PassJobs THEN OwnValue(job_type, row) # ""
    ELSE is_ok_status(OwnValue(job_type, row))

(* C2: a step job issues a remote call only for a row the step has not     *)
(* completed yet, so a second invocation calls nothing for the rows the    *)
(* first one completed.                                                    *)
C2_CompletedRowsSkipped ==
    [][(remoteLog' # remoteLog /\ job.type \in StepJobs) =>
          ~Completed(job.type, table[LastRemote(remoteLog').row])]_vars

\* what ends a job with status error for reasons of the infrastructure:
\* the missing table, the ION API configuration or token
InfrastructureErrors == {"Tabelle nicht gefunden.", "ionapi"}

C8_FailedItemsCounted ==
    (job.status = "success" /\ job.results # <<>>) =>
        /\ job.result.ok = Cardinality({k \in 1..Len(job.results) : job.results[k].ok})
        /\ job.result.error = Cardinality({k \in 1..Len(job.results) : ~job.results[k].ok})

\* the outcome of the current step is on the row(s) it belongs to
Persisted(j, t) ==
    IF j.type = "wagon_renumber"
    THEN j.status = "running" => t[1].PLPN = j.plpn /\ t[1].MWNO = j.mwno
    ELSE \A k \in 1..Len(j.rows[j.idx]) :
            OwnValue(j.type, t[j.rows[j.idx][k]]) = Recorded(j.type, j.cur)

----------------------------------------------------------------------------
(* The part-number exchange on its own: one preparation and one run of    *)
(* it; a further run would start from a table prepared anew.              *)

NextTeil ==
    \/ teilenummer_prepare /\ nJobs = 0
    \/ teilenummer_run_start /\ nJobs = 0
    \/ teilenummer_run_load
    \/ teilenummer_run_mos125
    \/ teilenummer_run_mos170
    \/ teilenummer_run_plpn
    \/ teilenummer_run_cms100
    \/ teilenummer_run_mos100
    \/ teilenummer_run_mos180
    \/ teilenummer_run_mos050
    \/ teilenummer_run_finish

SpecTeil == Init /\ [][NextTeil]_vars

----------------------------------------------------------------------------
(* The merge of _store_mi_rows on its own: imports into a store whose rows *)
(* earlier sessions took to different points of the pipeline.              *)

Profiles == {"updated", "removed", "failed", "dryrun", "done", "rolledback"}

\* a stored row: after renumber_update; after a successful, a failed, a
\* dry-run remove; after the whole pipeline; after remove and rollback
ProfileRow(node, profile) ==
    LET row == UpdatedRow(node, "20240101")
        renumbered == needs_renumber(row) /\ NodeITNO(node) # ""
    IN CASE profile = "updated" -> row
         [] profile = "removed" -> [row EXCEPT !.OUT = "OK"]
         [] profile = "failed" -> [row EXCEPT !.OUT = "ERROR: " \o ErrorText("err")]
         [] profile = "dryrun" -> [row EXCEPT !.OUT = "DRYRUN", !.ROLLBACK = "DRYRUN"]
         [] profile = "rolledback" -> [row EXCEPT !.OUT = "OK", !.ROLLBACK = "OK"]
         [] profile = "done" ->
              [row EXCEPT !.OUT = "OK", !.IN_ = "OK", !.STS046_ADD_STATUS = "OK",
                          !.PLPN = IF renumbered THEN "PLPN1" ELSE "",
                          !.MWNO = IF renumbered THEN "MWNO1" ELSE "",
                          !.MOS100_STATUS = IF renumbered THEN "OK" ELSE "",
                          !.MOS180_STATUS = IF renumbered THEN "OK" ELSE "",
                          !.MOS050_STATUS = IF renumbered THEN "OK" ELSE ""]

ProfileRows == {ProfileRow(node, profile) : node \in Nodes, profile \in Profiles}

InitMerge ==
    /\ tableExists = TRUE
    /\ table \in SeqsUpTo(ProfileRows, MaxRows)
    /\ tauschExists = FALSE
    /\ tausch = <<>>
    /\ dryRun \in BOOLEAN
    /\ retryLimit = TRUE
    /\ Quiet
    /\ job = NoJob
    /\ apiLog = <<>>
    /\ remoteLog = <<>>
    /\ nJobs = 0

NextMerge ==
    \/ objstrk
    \/ renumber_import_mrouhi

SpecMerge == InitMerge /\ [][NextMerge]_vars

\* the position of row i among the rows of t with its key
KeyIndex(t, i) ==
    Cardinality({j \in 1..i : renumber_row_key(t[j]) = renumber_row_key(t[i])})

\* incoming row i takes over from existing row j
Paired(new, i, old, j) ==
    /\ renumber_row_key(new[i]) = renumber_row_key(old[j])
    /\ KeyIndex(new, i) = KeyIndex(old, j)

CarriedFields == {"IN_", "PLPN", "MWNO", "MOS100_STATUS", "MOS180_STATUS", "MOS050_STATUS",
                  "STS046_ADD_STATUS", "NEW_PART_ITNO", "NEW_PART_SER2"}

----------------------------------------------------------------------------
(* Every job in the deployment's default configuration, dry-run.  The     *)
(* rollback's change of parent follows a live call only and is no step of  *)
(* a dry-run job.                                                          *)

InitDry == InitSteps /\ dryRun = TRUE

NextDry ==
    \/ single_pass_start
    \/ single_pass_load
    \/ single_pass_attempt
    \/ single_pass_commit
    \/ single_pass_publish
    \/ single_pass_finish
    \/ pass_start
    \/ pass_load
    \/ pass_attempt
    \/ pass_commit
    \/ pass_publish
    \/ pass_finish
    \/ renumber_mos100_start
    \/ renumber_mos100_load
    \/ renumber_mos100_attempt
    \/ renumber_mos100_commit
    \/ renumber_mos100_publish
    \/ renumber_mos100_finish
    \/ renumber_sts046_add_start
    \/ renumber_sts046_add_load
    \/ renumber_sts046_add_attempt
    \/ renumber_sts046_add_commit
    \/ renumber_sts046_add_publish
    \/ renumber_sts046_add_finish
    \/ run_rollback_job_start
    \/ run_rollback_job_load
    \/ run_rollback_job_attempt
    \/ run_rollback_job_commit
    \/ run_rollback_job_publish
    \/ run_rollback_job_finish
    \/ renumber_wagon_start
    \/ renumber_wagon_load
    \/ renumber_wagon_mos170
    \/ renumber_wagon_plpn
    \/ renumber_wagon_cms100
    \/ renumber_wagon_mos100
    \/ renumber_wagon_mos180
    \/ renumber_wagon_crs335
    \/ teilenummer_prepare
    \/ teilenummer_run_start
    \/ teilenummer_run_load
    \/ teilenummer_run_mos125
    \/ teilenummer_run_mos170
    \/ teilenummer_run_plpn
    \/ teilenummer_run_cms100
    \/ teilenummer_run_mos100
    \/ teilenummer_run_mos180
    \/ teilenummer_run_mos050
    \/ teilenummer_run_finish

SpecDry == InitDry /\ [][NextDry]_vars

(* C3: with dry-run effective, no step of any job calls the remote         *)
(* transaction service (call_m3_mi_get, _call_ips_service).                *)
C3_DryRunPurity == dryRun => remoteLog = <<>>

\* a dry-run rollback that went through its rows after a dry-run remove
C3_Witness ==
    /\ dryRun /\ job.type = "renumber_rollback" /\ job.status = "success"
    /\ job.processed >= 1 /\ nJobs = 2
    /\ \E i \in 1..Len(table) : table[i].OUT = "DRYRUN" /\ table[i].ROLLBACK = "DRYRUN"

(* C4: in dry-run the add-property step leaves a non-empty placeholder     *)
(* PLPN on every row it processed with its required fields present, so     *)
(* that the lookup step finds the row.                                     *)
C4_DryRunPlaceholder ==
    (dryRun /\ job.type = "mos170_addprop" /\ job.status = "success") =>
        \A i \in 1..Len(table) :
           (needs_renumber(table[i]) /\ ~PassRequiredMissing("mos170_addprop", table[i]))
              => table[i].PLPN # ""

----------------------------------------------------------------------------
(* The retried steps: one job with a retried step (add-property, lookup,   *)
(* wagon renumbering, part-number run) over a stored wagon or a prepared   *)
(* exchange table.                                                         *)

NextRetry ==
    \/ teilenummer_prepare /\ nJobs = 0 /\ ~tauschExists
    \/ pass_start /\ nJobs = 0
    \/ pass_load
    \/ pass_attempt
    \/ pass_commit
    \/ pass_publish
    \/ pass_finish
    \/ renumber_wagon_start /\ nJobs = 0
    \/ renumber_wagon_load
    \/ renumber_wagon_mos170
    \/ renumber_wagon_plpn
    \/ renumber_wagon_cms100
    \/ renumber_wagon_mos100
    \/ renumber_wagon_mos180
    \/ renumber_wagon_crs335
    \/ teilenummer_run_start /\ nJobs = 0
    \/ teilenummer_run_load
    \/ teilenummer_run_mos125
    \/ teilenummer_run_mos170
    \/ teilenummer_run_plpn
    \/ teilenummer_run_cms100
    \/ teilenummer_run_mos100
    \/ teilenummer_run_mos180
    \/ teilenummer_run_mos050
    \/ teilenummer_run_finish

SpecRetry == InitSteps /\ [][NextRetry]_vars

\* the API log records of the current job for an action on a row
Records(action, rowid) ==
    {k \in 1..Len(apiLog) :
        apiLog[k].job = nJobs /\ apiLog[k].action = action /\ apiLog[k].row = rowid}

Attempts(action, rowid) == Cardinality(Records(action, rowid))

\* a failed record with the given message
Missing(action, rowid, message) ==
    \E k \in Records(action, rowid) : ~apiLog[k].ok /\ apiLog[k].error = message

\* the maximum of the retried step the job is in, 0 if it is in none
RetriedStep(j) ==
    CASE j.type \in PassJobs /\ j.pc \in {"item", "commit", "publish"} -> RETRY_MAX(j.type)
      [] j.type = "teilenummer_run" /\ j.pc = "mos170" -> MOS170_RETRY_MAX
      [] j.type = "teilenummer_run" /\ j.pc = "cms100" -> CMS100_RETRY_MAX
      [] j.type = "wagon_renumber" /\ j.pc = "cms100" -> WAGON_CMS100_RETRY_MAX
      [] OTHER -> 0

C6_InvalidAttemptedOnce ==
    \A i \in 1..Len(table) :
       (job.type = "mos170_addprop" /\ PassRequiredMissing("mos170_addprop", table[i]))
          => Attempts("ih_addprop", i) <= 1

----------------------------------------------------------------------------
(* Import of a removal history and the rollback that follows it *)

\* the store is empty, or holds the history of an assembly and two parts
\* at one position whose install an earlier session attempted
InstallResults == {"OK", "ERROR: " \o ErrorText("err")}

InstalledHistories ==
    LET C == HistoryEntry(<<"1", "1", "1">>, "C", "c", "", "20240101")
        A == HistoryEntry(<<"1", "1">>, "A", "a", "", "20240101")
        rows == MappedRows(build_mrouhi_preview_rows(<<A, C, C>>))
    IN {[i \in 1..3 |-> [rows[i] EXCEPT !.IN_ = IF i = 3 THEN "OK" ELSE status[i]]] :
           status \in [1..2 -> InstallResults]}

\* the rollback runs as a dry run, so that the change of parent, which
\* follows a live call only, is no step of this specification
InitHistory ==
    /\ table \in {<<>>} \cup InstalledHistories
    /\ tableExists = (table # <<>>)
    /\ dryRun = TRUE
    /\ retryLimit = TRUE
    /\ Quiet
    /\ job = NoJob
    /\ tauschExists = FALSE
    /\ tausch = <<>>
    /\ apiLog = <<>>
    /\ remoteLog = <<>>
    /\ nJobs = 0

NextHistory ==
    \/ objstrk
    \/ renumber_rollback_from_mrouhi_start
    \/ renumber_rollback_from_mrouhi_import
    \/ run_rollback_job_load
    \/ run_rollback_job_attempt
    \/ run_rollback_job_commit
    \/ run_rollback_job_publish
    \/ run_rollback_job_finish

SpecHistory == InitHistory /\ [][NextHistory]_vars

\* the worker has stored the history and is about to enter _run_rollback_job
HandOff ==
    /\ Running /\ job.type = "renumber_rollback_mrouhi"
    /\ job.pc = "load" /\ job.step = "rollback"

\* the rows MOS256MI delivers for a list of nodes
ObjstrkRows(nodes) == [i \in 1..Len(nodes) |-> RawRow(nodes[i])]

\* the same rows in the same order with the same columns
SameStored(t1, t2) ==
    /\ Len(t1) = Len(t2)
    /\ \A i \in 1..Len(t1) : [t1[i] EXCEPT !.MERGED = FALSE] = [t2[i] EXCEPT !.MERGED = FALSE]

(* C11: whatever an import of a raw hierarchy stores, importing the same   *)
(* raw hierarchy again with no step execution in between stores the same   *)
(* rows: the same order (SEQ is the position), the same resolved parent    *)
(* item and serial, the same status fields.                                *)
C11_IdempotentReimport ==
    [][/\ (HandOff' /\ ~HandOff) =>
             \A rows \in {job'.rows}, stored \in {table'} :
                SameStored(store_mi_rows(MappedRows(build_mrouhi_preview_rows(rows)),
                                         TRUE, stored),
                           stored)
       /\ \A nodes \in NodeLists \ {<<>>} :
             (/\ ~Running /\ job' = job /\ apiLog' = <<>>
              /\ table' = store_mi_rows(ObjstrkRows(nodes), tableExists, table)) =>
                SameStored(store_mi_rows(ObjstrkRows(nodes), TRUE, table'), table')]_vars

\* a history taken in a second time over a store whose two parts at one
\* position, under one resolved parent, had come to different install
\* results: the rows are those a further import would store
C11_Witness ==
    /\ HandOff
    /\ Len(table) = 3
    /\ table[1].IN_ = "OK" /\ table[2].IN_ = "ERROR: " \o ErrorText("err")
    /\ renumber_row_key(table[1]) = renumber_row_key(table[2])
    /\ table[1].MTRL = "A" /\ table[1].MERGED
    /\ \A rows \in {job.rows} :
          SameStored(store_mi_rows(MappedRows(build_mrouhi_preview_rows(rows)), TRUE, table),
                     table)

\* the entries of a history in the order the import visits them
Visited(rows) ==
    LET entries == HistoryFilter(rows, 0)
    IN sorted_entries({entries[i] : i \in 1..Len(entries)})

\* the number of entries visited before the i-th that share its position
ChildIndex(visited, i) ==
    Cardinality({j \in 1..(i - 1) : visited[j].CFGL = visited[i].CFGL})

(* C20: among the children sharing one path, the i-th child visited is     *)
(* assigned the i-th parent candidate of the candidate list sorted by      *)
(* (serial, item), counted modulo the number of candidates when the        *)
(* children outnumber them.                                                *)
C20_FanOutByIndex ==
    HandOff =>
       \A rows \in {job.rows} :
          LET visited == Visited(rows)
              entries == HistoryFilter(rows, 0)
              keys == CfglKeys(entries)
              cfgl_map == CfglMap(entries, keys)
          IN \A i \in 1..Len(visited) :
                LET candidates == ParentCandidates(visited[i], cfgl_map, keys)
                    chosen == candidates[(ChildIndex(visited, i) % Len(candidates)) + 1]
                IN candidates # <<>> =>
                      /\ table[i].MTRL = chosen.ITNO
                      /\ table[i].SERN = chosen.SERN

----------------------------------------------------------------------------
(* The rollback against the live interface, with every response of the     *)
(* model: classification of the responses and change of parent             *)

\* a stored wagon after renumber_run: the first row removed, the second
\* removed or failed; the rollback is the last job the bound admits
RemovedTables ==
    {t \in {[i \in 1..Len(nodes) |->
               [UpdatedRow(nodes[i], umbau_datum) EXCEPT
                   !.OUT = IF i = 1 THEN "OK" ELSE second]] :
             nodes \in StoredNodeLists, umbau_datum \in DateInputs,
             second \in {"OK", "ERROR: " \o ErrorText("err")}} :
       \A i \in 1..Len(t) : t[i].OUT = "OK" => ~RequiredMissing("renumber_run", t[i])}

InitRollback ==
    /\ tableExists = TRUE
    /\ table \in RemovedTables
    /\ dryRun = FALSE
    /\ retryLimit = TRUE
    /\ Quiet
    /\ job = NoJob
    /\ tauschExists = FALSE
    /\ tausch = <<>>
    /\ apiLog = <<>>
    /\ remoteLog = <<>>
    /\ nJobs = MaxJobs - 1

NextRollback ==
    \/ run_rollback_job_start
    \/ run_rollback_job_load
    \/ run_rollback_job_attempt
    \/ run_rollback_job_fallback
    \/ run_rollback_job_commit
    \/ run_rollback_job_publish
    \/ run_rollback_job_finish

SpecRollback == InitRollback /\ [][NextRollback]_vars

\* the response the worker holds is a response (not an exception)
Answered(response) == ~response.raises

\* the three domain indicators on the code and the message that
\* _mi_extract_code_message hands to the classifier
AsyncIndicator(response) ==
    \/ mi_extract_code_message(response).code = "MO96202"
    \/ MentionsAsync(mi_extract_code_message(response).message)
InstalledIndicator(response) ==
    \/ mi_extract_code_message(response).code = "MO12524"
    \/ MentionsInstalled(mi_extract_code_message(response).message)
BlockingIndicator(response) ==
    \/ mi_extract_code_message(response).code = "MO12527"
    \/ MentionsStatus80(mi_extract_code_message(response).message)

\* an error-shaped field or message anywhere in the response
ErrorShaped(response) ==
    \/ response.type = "ServerReturnedNOK"
    \/ response.ErrorMessage # ""
    \/ MentionsError(response.Message)
    \/ \E k \in 1..Len(response.messages) :
          \/ response.messages[k].MessageType \in ErrorTypes
          \/ MentionsError(response.messages[k].MessageText)

\* C12: a response with the async indicator is OK_ASYNC and ok, otherwise one
\* with the already-installed indicator is OK_IDEMPOTENT and ok, otherwise
\* one with the blocking indicator is the blocking class (label
\* BLOCKING_WARNING) and not ok; none of them is classified ERROR, whatever
\* error-shaped fields it carries.  The status the rollback keeps for the
\* row follows the class.
C12_ClassifierPrecedence ==
    \A i \in 1..Len(job.response) :
       LET response == job.response[i]
           status == mi_status(response)
       IN Answered(response) =>
             /\ AsyncIndicator(response) =>
                   /\ status.ok /\ status.label = "OK_ASYNC"
                   /\ job.cur.ok /\ job.cur.out = "OK_ASYNC"
             /\ (~AsyncIndicator(response) /\ InstalledIndicator(response)) =>
                   /\ status.ok /\ status.label = "OK_IDEMPOTENT"
                   /\ job.cur.ok /\ job.cur.out = "OK: bereits installiert"
             /\ (/\ ~AsyncIndicator(response) /\ ~InstalledIndicator(response)
                 /\ BlockingIndicator(response)) =>
                   /\ ~status.ok /\ status.label = "BLOCKING_WARNING"
                   /\ ~job.cur.ok /\ job.cur.out = "ERROR: BLOCKING_WARNING"
             /\ (\/ AsyncIndicator(response) \/ InstalledIndicator(response)
                 \/ BlockingIndicator(response)) => status.label # "ERROR"

\* an already-installed response of type NOK with an error-typed message and
\* an ErrorMessage, kept as a success
C12_Witness ==
    /\ job.pc = "commit"
    /\ job.response = <<MIResponse("MO12524", "ServerReturnedNOK",
                                   <<MessageEntry("E", "failed")>>, "", "failed")>>
    /\ job.cur.ok /\ job.cur.out = "OK: bereits installiert"

\* C13: without any of the three indicators the class is ERROR exactly when
\* the response carries an error-shaped field or message, an error-typed
\* message at any position of the message list included, and OK otherwise
C13_ErrorIffErrorShaped ==
    \A i \in 1..Len(job.response) :
       LET response == job.response[i]
           status == mi_status(response)
       IN (/\ Answered(response)
           /\ ~AsyncIndicator(response) /\ ~InstalledIndicator(response)
           /\ ~BlockingIndicator(response)) =>
             /\ ErrorShaped(response) =>
                   /\ status.label = "ERROR" /\ status.error # ""
                   /\ ~job.cur.ok /\ job.cur.out = "ERROR: ERROR"
             /\ ~ErrorShaped(response) =>
                   /\ status.label = "OK" /\ job.cur.ok /\ job.cur.out = "OK"

\* the live install calls of one job for one row, as API.log records them
InstallCall(k, job_id, rowid) ==
    /\ apiLog[k].action = "rollback" /\ ~apiLog[k].dry_run
    /\ apiLog[k].job = job_id /\ apiLog[k].row = rowid
    /\ apiLog[k].error # "UMBAU_DATUM fehlt"

\* C19: in the rollback job the install of an item is made at most once per
\* candidate parent (the first call against the row's own parent, every
\* retry against a parent not yet tried), and exactly once when there is
\* at most one candidate
C19_OneCallPerCandidate ==
    /\ \A k1 \in 1..Len(apiLog), k2 \in 1..Len(apiLog) :
          (/\ k1 < k2
           /\ InstallCall(k1, apiLog[k1].job, apiLog[k1].row)
           /\ InstallCall(k2, apiLog[k1].job, apiLog[k1].row)) =>
             apiLog[k1].parent # apiLog[k2].parent
    /\ (/\ Running /\ job.type \in RollbackJobs /\ job.pc = "commit"
        /\ job.response # <<>> /\ Len(job.candidates) <= 1) =>
          Cardinality({k \in 1..Len(apiLog) :
                          InstallCall(k, nJobs, job.rows[job.idx][1])}) = 1

\* the steps that call MOS125MI RemoveInstall item by item
InstallSteps == {"renumber_run", "renumber_install"} \cup RollbackJobs

\* C14: in every step that calls the remove / install operation, a response
\* saying that the part is installed in this position (code MO12524 or that
\* text) is kept as a success status of the item and counted ok
C14_IdempotentConflictIsSuccess ==
    (Running /\ job.type \in InstallSteps /\ job.pc \in {"commit", "publish"}) =>
       \A i \in 1..Len(job.response) :
          (Answered(job.response[i]) /\ InstalledIndicator(job.response[i])) =>
             job.cur.ok /\ is_ok_status(job.cur.out)

----------------------------------------------------------------------------
(* One job of any kind with fair scheduling of the worker thread, with the *)
(* retry maxima set or switched off (0).  A loop without maximum is        *)
(* followed for MaxPasses rounds.                                          *)

InitLive ==
    /\ \/ tableExists = FALSE /\ table = <<>>
       \/ tableExists = TRUE /\ table \in StoredTables \cup RemovedTables
    /\ dryRun \in BOOLEAN
    /\ retryLimit \in BOOLEAN
    /\ Quiet
    /\ job = NoJob
    /\ tauschExists = FALSE
    /\ tausch = <<>>
    /\ apiLog = <<>>
    /\ remoteLog = <<>>
    /\ nJobs = 0

NextLive ==
    \/ NextRetry
    \/ single_pass_start /\ nJobs = 0
    \/ single_pass_load
    \/ single_pass_attempt
    \/ single_pass_commit
    \/ single_pass_publish
    \/ single_pass_finish
    \/ renumber_mos100_start /\ nJobs = 0
    \/ renumber_mos100_load
    \/ renumber_mos100_attempt
    \/ renumber_mos100_commit
    \/ renumber_mos100_publish
    \/ renumber_mos100_finish
    \/ renumber_sts046_add_start /\ nJobs = 0
    \/ renumber_sts046_add_load
    \/ renumber_sts046_add_attempt
    \/ renumber_sts046_add_commit
    \/ renumber_sts046_add_publish
    \/ renumber_sts046_add_finish
    \/ run_rollback_job_start /\ nJobs = 0
    \/ run_rollback_job_load
    \/ run_rollback_job_attempt /\ ClassResponse'
    \/ run_rollback_job_fallback /\ ClassResponse'
    \/ run_rollback_job_commit
    \/ run_rollback_job_publish
    \/ run_rollback_job_finish

SpecLive == InitLive /\ [][NextLive]_vars /\ WF_vars(NextLive)

Visits(action, job_id) ==
    LET OfJob(entry) == entry.action = action /\ entry.job = job_id
        records == SelectSeq(apiLog, OfJob)
    IN [k \in 1..Len(records) |-> records[k].row]

\* C18: the install step visits the rows in exactly the reverse of the
\* order in which the remove step visits them: the k-th row of an install
\* is the k-th row from the end of a complete remove of the stored run
C18_InstallReversesRemove ==
    \A remove_job \in 1..nJobs, install_job \in 1..nJobs :
       LET removed == Visits("ausbau", remove_job)
           installed == Visits("einbau", install_job)
       IN (Len(removed) = Len(table) /\ installed # <<>>) =>
             /\ Len(installed) <= Len(removed)
             /\ \A k \in 1..Len(installed) :
                   installed[k] = removed[Len(removed) + 1 - k]

\* a remove and an install of a wagon of two rows, both complete
C18_Witness ==
    /\ Len(table) = 2 /\ ~Running /\ job.status = "success"
    /\ Visits("ausbau", 1) = <<1, 2>>
    /\ Visits("einbau", 2) = <<2, 1>>

\* the worker is about to attempt a step on an item whose required input
\* is missing: the conversion date (remove, install, rollback), item,
\* serial or start date (add-property), the planned order (lookup), the
\* work order (change-serial, approve, assembly)
MissingInput ==
    /\ Running
    /\ CASE job.type \in SinglePassJobs /\ job.pc = "item" ->
               RequiredMissing(job.type, table[job.rows[job.idx][1]])
         [] job.type \in PassJobs /\ job.pc = "item" ->
               PassRequiredMissing(job.type, table[job.rows[job.idx][1]])
         [] job.type = "ips_mos100_chgsern" /\ job.pc = "item" ->
               table[job.rows[job.idx][1]].MWNO = ""
         [] job.type \in RollbackJobs /\ job.pc = "item" ->
               format_yyyymmdd(table[job.rows[job.idx][1]].UMBAU_DATUM) = ""
         [] job.type = "teilenummer_run" /\ job.pc = "mos170" ->
               tausch[job.idx].KIND = "noserial"
         [] job.type = "teilenummer_run" /\ job.pc = "cms100" -> job.plpn = ""
         [] job.type = "teilenummer_run" /\ job.pc \in {"mos100", "mos180", "mos050"} ->
               job.mwno = ""
         [] OTHER -> FALSE

\* C16: a step attempted on an item whose required input is missing issues
\* no remote call and records a failed (ERROR / NOK) outcome for the item
C16_MissingInputNoCall ==
    [][MissingInput =>
          /\ remoteLog' = remoteLog
          /\ \/ ~job'.cur.ok /\ job'.cur.out # ""
             \/ /\ Len(apiLog') > Len(apiLog)
                /\ ~apiLog'[Len(apiLog) + 1].ok /\ apiLog'[Len(apiLog) + 1].error # ""]_vars

\* live: a remove that found no conversion date on its first row
C16_Witness ==
    /\ ~dryRun /\ remoteLog = <<>> /\ apiLog # <<>>
    /\ ~apiLog[Len(apiLog)].ok /\ apiLog[Len(apiLog)].error = "UMBAU_DATUM fehlt"
    /\ job.type = "renumber_run" /\ job.pc = "commit"
    /\ job.cur.out = "ERROR: UMBAU_DATUM fehlt"

\* the API log record k stands for a remote call of the given step
IssuedCall(k, action) ==
    /\ apiLog[k].action = action /\ ~apiLog[k].dry_run
    /\ apiLog[k].error # "UMBAU_DATUM fehlt"

\* C17: remote operations follow the pipeline order item by item; in
\* particular no install is issued for an item before a remove of that item
C17_InstallAfterRemove ==
    \A k \in 1..Len(apiLog) :
       IssuedCall(k, "einbau") =>
          \E m \in 1..(k - 1) :
             IssuedCall(m, "ausbau") /\ apiLog[m].row = apiLog[k].row

----------------------------------------------------------------------------
(* Parents of the imported removal history                                 *)

\* a position that needs a parent and for which the history names none:
\* neither an entry at the parent position nor one at a sibling of it
NoParentCandidate(rows, cfgl) ==
    LET entries == HistoryFilter(rows, 0)
        keys == CfglKeys(entries)
        cfgl_map == CfglMap(entries, keys)
    IN /\ parent_cfgl_for(cfgl) # <<>>
       /\ \A i \in 1..Len(entries) :
             entries[i].CFGL = cfgl => ParentCandidates(entries[i], cfgl_map, keys) = <<>>

\* the worker of renumber_rollback_from_mrouhi between the import and
\* _run_rollback_job: job.rows holds the history, table the mapped rows
Imported ==
    /\ Running /\ job.type = "renumber_rollback_mrouhi"
    /\ job.step = "rollback" /\ job.pc = "load"

\* C21: a row of the imported history that needs a parent and has no parent
\* candidate is stored with blank parent item and parent serial
C21_NoCandidateLeavesParentBlank ==
    Imported =>
       \A rowid \in 1..Len(table) :
          NoParentCandidate(job.rows, table[rowid].CFGL) =>
             table[rowid].MTRL = "" /\ table[rowid].SERN = ""

----------------------------------------------------------------------------
(* Derivation of the target identifiers of one stored row, on strings      *)

Ten == <<"1", "2", "3", "4", "5", "6", "7", "8", "9", "0">>

\* items: none, with and without the underscore before the model M1, of
\* another model, the model itself
ItemTexts ==
    {<<>>, <<"B", "_", "M", "1">>, <<"B", "M", "1">>, <<"B", "_", "M", "2">>, <<"M", "1">>}

\* serials: none, with the wagon's serial after a dash, without dash, of
\* another wagon, the long serial
SerialTexts ==
    {<<>>, <<"X", "-", "1", "2">>, <<"X", "1", "2">>, <<"X", "-", "1", "3">>,
     <<"X", "-">> \o Ten}

WagonItems == {<<"W", "_", "M", "1">>, <<"M", "1">>, <<"W", "_">>}
WagonSerials == {<<"0", "0", "1", "2">>, <<"A">> \o Ten, <<"1", " ", "2">>, <<"0", "0">>}

\* the parent of a row: the wagon, a part, none
ParentTexts ==
    {<<<<"W", "_", "M", "1">>, <<"0", "0", "1", "2">>>>,
     <<<<"B", "_", "M", "1">>, <<"X", "-", "1", "2">>>>,
     <<<<>>, <<>>>>}

Positions == {<<"1">>, <<"0", "4">>, <<"5">>, <<"1", "-", "1">>}

\* the payload of renumber_update: new serial and new model of the wagon
NewSerials == {<<"3", "4">>, <<"0", "0", "1", "2">>}
NewModels == {<<"W", "_", "M", "2">>, <<"W", "_", "M", "1">>, <<"V", "_", "M", "2">>}

NoParams == [TRDT |-> "", NHAI |-> <<>>, NHSI |-> <<>>, ITNI |-> <<>>, BANI |-> <<>>]

\* a stored row before renumber_update; a row with a conversion date and
\* no new identifiers is one of an imported removal history
StoredParts ==
    {[pc |-> "stored", params |-> NoParams,
      row |-> [CFGL |-> cfgl, ITNO |-> itno, SER2 |-> ser2,
               MTRL |-> parent[1], SERN |-> parent[2],
               WAGEN_ITNO |-> wagen_itno, WAGEN_SERN |-> wagen_sern,
               UMBAU_DATUM |-> umbau_datum,
               NEW_SERN |-> <<>>, NEW_BAUREIHE |-> <<>>,
               NEW_PART_ITNO |-> <<>>, NEW_PART_SER2 |-> <<>>]] :
       cfgl \in Positions, itno \in ItemTexts, ser2 \in SerialTexts, parent \in ParentTexts,
       wagen_itno \in WagonItems, wagen_sern \in WagonSerials, umbau_datum \in {"", "20240101"}}

InitParts ==
    /\ tableExists = TRUE
    /\ table = <<>>
    /\ tauschExists = FALSE
    /\ tausch = <<>>
    /\ dryRun = FALSE
    /\ retryLimit = TRUE
    /\ job = NoJob
    /\ apiLog = <<>>
    /\ remoteLog = <<>>
    /\ nJobs = 0
    /\ jobs = <<>>
    /\ polled = NoPoll
    /\ served = NoRequest
    /\ resolved = NoResolved
    /\ workers = NoWorkers
    /\ snapshot = NoSnapshot
    /\ parts \in StoredParts

\* renumber_update on the row: the new identifiers of the wagon, the
\* conversion date and the derived identifiers of the part
renumber_update_row ==
    /\ parts.pc = "stored"
    /\ \E new_sern \in NewSerials, new_baureihe \in NewModels :
         LET updates == compute_part_updates_text(parts.row, strip(new_sern), strip(new_baureihe))
         IN parts' = [parts EXCEPT !.row.NEW_SERN = strip(new_sern),
                                   !.row.NEW_BAUREIHE = strip(new_baureihe),
                                   !.row.UMBAU_DATUM = "20240101",
                                   !.row.NEW_PART_ITNO = updates[1],
                                   !.row.NEW_PART_SER2 = updates[2],
                                   !.pc = "updated"]
    /\ UNCHANGED <<tableExists, table, tauschExists, tausch, dryRun, retryLimit, job, apiLog,
                   remoteLog, nJobs, jobs, polled, served,
                   resolved, workers, snapshot>>

\* the install step on the row (live): the parameters, and the call if the
\* conversion date is there
renumber_install_row ==
    /\ parts.pc \in {"stored", "updated"}
    /\ LET params == build_mos125_params_in(parts.row)
       IN parts' = [parts EXCEPT !.params = params,
                                 !.pc = IF params.TRDT = "" THEN "invalid" ELSE "called"]
    /\ UNCHANGED <<tableExists, table, tauschExists, tausch, dryRun, retryLimit, job, apiLog,
                   remoteLog, nJobs, jobs, polled, served,
                   resolved, workers, snapshot>>

NextParts ==
    \/ renumber_update_row
    \/ renumber_install_row

SpecParts == InitParts /\ [][NextParts]_vars

\* the model of an item: what follows the last underscore, the stripped
\* item itself if there is none
IsModelOf(model, item) ==
    /\ model # <<>>
    /\ ~Contains(model, "_")
    /\ \/ strip(item) = model
       \/ endswith(strip(item), <<"_">> \o model)

\* new is old with its tail old_tail replaced by new_tail
Replaced(new, old, old_tail, new_tail) ==
    /\ endswith(old, old_tail)
    /\ new = SubSeq(old, 1, Len(old) - Len(old_tail)) \o new_tail

\* C22: after renumber_update the new item of a row is empty unless the old
\* item ends with the model of the old wagon item, the new serial is empty
\* unless the old serial contains a dash and ends with the serial suffix of
\* the old wagon; a new value that is set differs from the old one and is
\* the old one with that suffix replaced by the suffix of the new wagon
C22_DerivedOnlyFromSuffix ==
    parts.pc # "stored" =>
       LET row == parts.row
       IN /\ row.NEW_PART_ITNO # <<>> =>
                /\ row.NEW_PART_ITNO # row.ITNO
                /\ \E k \in 1..Len(row.ITNO), n \in 1..Len(row.NEW_BAUREIHE) :
                      LET old_model == SubSeq(row.ITNO, k, Len(row.ITNO))
                          new_model == SubSeq(row.NEW_BAUREIHE, n, Len(row.NEW_BAUREIHE))
                      IN /\ IsModelOf(old_model, row.WAGEN_ITNO)
                         /\ IsModelOf(new_model, row.NEW_BAUREIHE)
                         /\ Replaced(row.NEW_PART_ITNO, row.ITNO, old_model, new_model)
          /\ row.NEW_PART_SER2 # <<>> =>
                /\ row.NEW_PART_SER2 # row.SER2
                /\ Contains(row.SER2, "-")
                /\ wagon_serial_suffix(row.WAGEN_SERN) # <<>>
                /\ Replaced(row.NEW_PART_SER2, row.SER2,
                            wagon_serial_suffix(row.WAGEN_SERN),
                            wagon_serial_suffix(row.NEW_SERN))

\* an updated row with a derived item and a derived serial: the item ends
\* with the model without an underscore, the wagon has the long serial
C22_Witness ==
    /\ parts.pc = "updated"
    /\ parts.row.NEW_PART_ITNO # <<>> /\ parts.row.NEW_PART_SER2 # <<>>
    /\ parts.row.ITNO = <<"B", "M", "1">>
    /\ parts.row.WAGEN_SERN = <<"A">> \o Ten

\* a position at the root of the hierarchy: a number from 1 to 4, no dash
RootLevel(cfgl) == ~Contains(cfgl, "-") /\ isdigit(cfgl) /\ int(cfgl) >= 1 /\ int(cfgl) <= 4

\* C23 as stated: every install call for a root-level row names the new
\* item and the new serial of the wagon as the parent
C23_RootInstalledIntoNewAsset ==
    parts.pc = "called" /\ RootLevel(parts.row.CFGL) =>
       /\ parts.params.NHAI = parts.row.NEW_BAUREIHE
       /\ parts.params.NHSI = parts.row.NEW_SERN

\* C23: on a row that carries the new identifiers of the wagon, the install
\* call of a root-level row names the new wagon item and serial as the
\* parent; the call of any other row names the stored parent, with the
\* substitution of _compute_part_updates where it yields one
C23_InstallTargets ==
    /\ parts.pc = "called"
    /\ parts.row.NEW_BAUREIHE # <<>> /\ parts.row.NEW_SERN # <<>>
    => LET row == parts.row
           derived == compute_part_updates_text(
                          [ITNO |-> row.MTRL, SER2 |-> row.SERN,
                           WAGEN_ITNO |-> row.WAGEN_ITNO, WAGEN_SERN |-> row.WAGEN_SERN],
                          row.NEW_SERN, row.NEW_BAUREIHE)
       IN IF RootLevel(row.CFGL)
          THEN /\ parts.params.NHAI = row.NEW_BAUREIHE
               /\ parts.params.NHSI = row.NEW_SERN
          ELSE /\ parts.params.NHAI = (IF derived[1] # <<>> THEN derived[1] ELSE row.MTRL)
               /\ parts.params.NHSI = (IF derived[2] # <<>> THEN derived[2] ELSE row.SERN)

\* an install call for a root-level row of an updated wagon whose stored
\* parent is not the new wagon
C23_Witness ==
    /\ parts.pc = "called"
    /\ parts.row.NEW_BAUREIHE = <<"V", "_", "M", "2">>
    /\ parts.row.CFGL = <<"0", "4">>
    /\ parts.row.MTRL = <<"W", "_", "M", "1">>
    /\ parts.params.NHAI = <<"V", "_", "M", "2">>

----------------------------------------------------------------------------
(* The operation log API.log                                               *)

\* C25: the operation log is append-only: no step of the system removes or
\* rewrites a record written before, a re-import of the hierarchy included
C25_LogAppendOnly ==
    [][/\ Len(apiLog') >= Len(apiLog)
       /\ SubSeq(apiLog', 1, Len(apiLog)) = apiLog]_vars

----------------------------------------------------------------------------
(* Remove followed by install on a stored wagon, live, with a remote       *)
(* service and an ION API configuration that answer every call with OK     *)

DatedTables ==
    {t \in StoredTables : \A i \in 1..Len(t) : format_yyyymmdd(t[i].UMBAU_DATUM) # ""}

InitEndToEnd ==
    /\ tableExists = TRUE
    /\ table \in DatedTables
    /\ dryRun = FALSE
    /\ retryLimit = TRUE
    /\ Quiet
    /\ job = NoJob
    /\ tauschExists = FALSE
    /\ tausch = <<>>
    /\ apiLog = <<>>
    /\ remoteLog = <<>>
    /\ nJobs = 0

\* the operator starts the remove, then the install
RemoveThenInstall ==
    job.type = (IF nJobs = 1 THEN "renumber_run" ELSE "renumber_install")

\* the prologue of the worker went through
Loaded == Running

\* the remote service answered the call with OK
AnsweredOk == job.response = <<StepResponse("ok")>>

NextEndToEnd ==
    \/ single_pass_start /\ RemoveThenInstall'
    \/ single_pass_load /\ Loaded'
    \/ single_pass_attempt /\ AnsweredOk'
    \/ single_pass_commit
    \/ single_pass_publish
    \/ single_pass_finish

SpecEndToEnd == InitEndToEnd /\ [][NextEndToEnd]_vars

AllItemsOk(j) ==
    /\ j.status = "success"
    /\ j.result = [total |-> Len(table), ok |-> Len(table), error |-> 0]

\* C24: when every row has a conversion date, dry-run is off and every
\* call is answered with OK, the remove job ends with success and the
\* result total = number of rows, ok = total, error = 0 and leaves OUT = OK
\* on every row, and the install job that follows ends the same way and
\* leaves IN = OK on every row as well
C24_RemoveInstallAllOk ==
    ~Running /\ nJobs >= 1 =>
       /\ AllItemsOk(job)
       /\ \A i \in 1..Len(table) : table[i].OUT = "OK"
       /\ nJobs >= 2 => \A i \in 1..Len(table) : table[i].IN_ = "OK"

\* the install job has ended on a wagon of two rows that was removed before
C24_Witness ==
    /\ ~Running /\ nJobs = 2 /\ job.type = "renumber_install"
    /\ Len(table) = 2
    /\ Len(job.results) = 2
    /\ Len(remoteLog) = 4

----------------------------------------------------------------------------
(* The job registry _jobs: entries by id, their log lines, polling         *)

MaxRegistry == 2     \* entries of the registry
MaxAppends == 4      \* log messages of one job
JOB_LOG_LIMIT == 3   \* lines a job keeps (2000 in the source)

\* the messages of a job are told apart by their number
Messages == <<"m1", "m2", "m3", "m4", "m5", "m6">>

\* an entry of the registry; total, processed and results are missing (-1)
\* until the worker's first _update_job; appended is no field of the
\* entry: it lists every non-empty message handed to _append_job_log
JobEntry(job_id) ==
    [id |-> job_id, status |-> "running", logs |-> <<>>, result |-> "None",
     error |-> "None", total |-> -1, processed |-> -1, results |-> <<>>,
     appended |-> <<>>]

\* _create_job: a fresh id
RegisterJob ==
    /\ Len(jobs) < MaxRegistry
    /\ jobs' = Append(jobs, JobEntry(Len(jobs) + 1))
    /\ UNCHANGED <<tableExists, table, tauschExists, tausch, dryRun, retryLimit, job, apiLog,
                   remoteLog, nJobs, polled, parts, served,
                   resolved, workers, snapshot>>

\* _update_job(job_id, total=total, processed=0, results=[])
update_job ==
    /\ \E job_id \in 1..Len(jobs) :
         /\ jobs[job_id].status = "running" /\ jobs[job_id].total = -1
         /\ jobs' = [jobs EXCEPT ![job_id].total = 1, ![job_id].processed = 0,
                                 ![job_id].results = <<>>]
    /\ UNCHANGED <<tableExists, table, tauschExists, tausch, dryRun, retryLimit, job, apiLog,
                   remoteLog, nJobs, polled, parts, served,
                   resolved, workers, snapshot>>

\* the worker's block under _jobs_lock after an item: processed = idx and
\* the item's result
publish_result ==
    /\ \E job_id \in 1..Len(jobs), ok \in BOOLEAN :
         /\ jobs[job_id].status = "running"
         /\ jobs[job_id].total # -1 /\ jobs[job_id].processed < jobs[job_id].total
         /\ jobs' = [jobs EXCEPT ![job_id].processed = @ + 1,
                                 ![job_id].results = Append(@, ok)]
    /\ UNCHANGED <<tableExists, table, tauschExists, tausch, dryRun, retryLimit, job, apiLog,
                   remoteLog, nJobs, polled, parts, served,
                   resolved, workers, snapshot>>

\* a list that is never cut
keep_all(logs) == logs

\* del logs[: len(logs) - JOB_LOG_LIMIT]
trim_logs(logs) ==
    IF Len(logs) > JOB_LOG_LIMIT
    THEN SubSeq(logs, Len(logs) - JOB_LOG_LIMIT + 1, Len(logs))
    ELSE logs

\* _append_job_log(job_id, message): nothing for an empty message or an
\* unknown id
append_job_log ==
    /\ \E job_id \in 0..(Len(jobs) + 1), empty \in BOOLEAN :
         LET known == job_id \in 1..Len(jobs)
             message == IF empty THEN "" ELSE Messages[Len(jobs[job_id].appended) + 1]
         IN /\ known => jobs[job_id].status = "running"
            /\ known => Len(jobs[job_id].appended) < MaxAppends
            /\ ~known => empty
            /\ jobs' = IF known /\ message # ""
                       THEN [jobs EXCEPT ![job_id].logs = trim_logs(Append(@, message)),
                                         ![job_id].appended = Append(@, message)]
                       ELSE jobs
    /\ UNCHANGED <<tableExists, table, tauschExists, tausch, dryRun, retryLimit, job, apiLog,
                   remoteLog, nJobs, polled, parts, served,
                   resolved, workers, snapshot>>

\* _finish_job(job_id, status, result, error)
finish_job_entry ==
    /\ \E job_id \in 1..Len(jobs), status \in {"success", "error"} :
         /\ jobs[job_id].status = "running"
         /\ jobs' = [jobs EXCEPT ![job_id].status = status,
                                 ![job_id].result = IF status = "success" THEN "result" ELSE "None",
                                 ![job_id].error = IF status = "error" THEN "error" ELSE "None"]
    /\ UNCHANGED <<tableExists, table, tauschExists, tausch, dryRun, retryLimit, job, apiLog,
                   remoteLog, nJobs, polled, parts, served,
                   resolved, workers, snapshot>>

\* what a poll shows of an entry
Snapshot(entry) ==
    [id |-> entry.id, status |-> entry.status, logs |-> entry.logs,
     result |-> entry.result, error |-> entry.error, total |-> entry.total,
     processed |-> entry.processed, results |-> entry.results]

\* a poll that answers with the entry registered last
job_snapshot_last(job_id) ==
    IF jobs # <<>>
    THEN [job_id |-> job_id, status_code |-> 200, snapshot |-> <<Snapshot(jobs[Len(jobs)])>>]
    ELSE [job_id |-> job_id, status_code |-> 404, snapshot |-> <<>>]

\* _job_snapshot: a copy of the entry, 404 if the id is not registered
job_snapshot(job_id) ==
    IF job_id \in 1..Len(jobs)
    THEN [job_id |-> job_id, status_code |-> 200, snapshot |-> <<Snapshot(jobs[job_id])>>]
    ELSE [job_id |-> job_id, status_code |-> 404, snapshot |-> <<>>]

\* GET /api/rsrd2/jobs/{job_id}
rsrd2_job_status ==
    /\ \E job_id \in 0..(MaxRegistry + 1) : polled' = job_snapshot(job_id)
    /\ UNCHANGED <<tableExists, table, tauschExists, tausch, dryRun, retryLimit, job, apiLog,
                   remoteLog, nJobs, jobs, parts, served,
                   resolved, workers, snapshot>>

InitRegistry ==
    /\ tableExists = FALSE
    /\ table = <<>>
    /\ tauschExists = FALSE
    /\ tausch = <<>>
    /\ dryRun = FALSE
    /\ retryLimit = TRUE
    /\ job = NoJob
    /\ apiLog = <<>>
    /\ remoteLog = <<>>
    /\ nJobs = 0
    /\ jobs = <<>>
    /\ polled = NoPoll
    /\ parts = NoParts
    /\ served = NoRequest
    /\ resolved = NoResolved
    /\ workers = NoWorkers
    /\ snapshot = NoSnapshot

NextRegistry ==
    \/ RegisterJob
    \/ update_job
    \/ publish_result
    \/ append_job_log
    \/ finish_job_entry
    \/ rsrd2_job_status

SpecRegistry == InitRegistry /\ [][NextRegistry]_vars

\* C26: no entry ever leaves the registry; a poll of a registered id
\* answers with the entry's present status, counters, error and results, a
\* poll of any other id with 404; a poll changes no entry
C26_PollReturnsCurrentJob ==
    [][/\ Len(jobs') >= Len(jobs)
       /\ \A job_id \in 1..Len(jobs) : jobs'[job_id].id = job_id
       /\ polled' # polled =>
             /\ jobs' = jobs
             /\ IF polled'.job_id \in 1..Len(jobs)
                THEN /\ polled'.status_code = 200
                     /\ polled'.snapshot = <<Snapshot(jobs[polled'.job_id])>>
                ELSE /\ polled'.status_code = 404
                     /\ polled'.snapshot = <<>>]_vars

\* the first of two jobs was polled after it had ended with its result
\* published, while the second is running
C26_Witness ==
    /\ Len(jobs) = 2
    /\ polled.job_id = 1 /\ polled.status_code = 200
    /\ polled.snapshot[1].status = "success"
    /\ polled.snapshot[1].processed = 1
    /\ jobs[2].status = "running"

\* C27: a job holds at most JOB_LOG_LIMIT log lines, and they are the most
\* recent non-empty messages appended to it, in the order of the appends
C27_LogRingBuffer ==
    \A job_id \in 1..Len(jobs) :
       LET logs == jobs[job_id].logs
           appended == jobs[job_id].appended
       IN /\ Len(logs) <= JOB_LOG_LIMIT
          /\ Len(logs) = (IF Len(appended) < JOB_LOG_LIMIT THEN Len(appended) ELSE JOB_LOG_LIMIT)
          /\ logs = SubSeq(appended, Len(appended) - Len(logs) + 1, Len(appended))

\* a job that was handed more messages than it keeps
C27_Witness ==
    \E job_id \in 1..Len(jobs) :
       /\ Len(jobs[job_id].appended) > JOB_LOG_LIMIT
       /\ jobs[job_id].logs[1] = "m2"

(***************************************************************************)
(* Route ownership of the split deployment                                 *)
(*                                                                         *)
(* A path is a sequence of text pieces; no piece is the beginning of       *)
(* another piece, so one path begins with another exactly when its pieces  *)
(* begin with the other's pieces.                                          *)
(***************************************************************************)
startswith(path, prefix) ==
    /\ Len(path) >= Len(prefix)
    /\ SubSeq(path, 1, Len(prefix)) = prefix

CanonicalService ==
    {"appmfd", "objektstruktur", "bremsenumbau", "goldenview",
     "mehrkilometer", "rsrd", "sql_api", "teilenummer", "wagensuche"}

ServiceName == CanonicalService \cup {"core", "rsrd2"}

SHARED_STATIC_PREFIXES == { <<"/", "bilder", "/">> }

SHARED_STATIC_PATHS ==
    { <<"/", "styles", ".css">>,
      <<"/", "ids-enterprise", ".css">>,
      <<"/", "api", "-config", ".js">>,
      <<"/", "app", ".js">>,
      <<"/", "wagensuche", ".js">>,
      <<"/", "rsrd2", "_compare", ".js">> }

is_shared_static_path(path) ==
    \/ path \in SHARED_STATIC_PATHS
    \/ \E prefix \in SHARED_STATIC_PREFIXES : startswith(path, prefix)

RootPaths ==
    { <<"/">>, <<"/", "index", ".html">>, <<"/", "favicon", ".ico">>,
      <<"/", "portal", "-config", ".js">> }

Api(name) == <<"/", "api", "/", name>>

SqlPaths ==
    { <<"/", "query">>, <<"/", "query", "/">>, <<"/", "M3BRIDGE", ".html">> }

\* a rule that gives every path beginning with /query to sql_api
is_sql_prefix(path) == startswith(path, <<"/", "query">>)

is_sql_path(path) == path \in SqlPaths

classify_path(path) ==
    IF path \in RootPaths \/ startswith(path, <<"/", "portal", "/">>)
      THEN "appmfd"
    ELSE IF path = <<"/", "objektstrukturtausch", ".html">>
      THEN "objektstruktur"
    ELSE IF path = <<"/", "wagenumbau", ".html">>
      THEN "bremsenumbau"
    ELSE IF path = <<"/", "teilenummer", ".html">>
      THEN "teilenummer"
    ELSE IF path \in { <<"/", "wagensuche", ".html">>,
                       <<"/", "wagensuche", ".js">> }
      THEN "wagensuche"
    ELSE IF path \in { <<"/", "rsrd2", ".html">>,
                       <<"/", "rsrd2", "_compare", ".html">>,
                       <<"/", "rsrd2", "_compare", ".js">> }
      THEN "rsrd"
    ELSE IF path = <<"/", "gpt-goldenview", ".html">>
      THEN "goldenview"
    ELSE IF startswith(path, Api("mehrkilometer"))
      THEN "mehrkilometer"
    ELSE IF startswith(path, Api("rsrd2"))
      THEN "rsrd"
    ELSE IF \/ startswith(path, Api("goldenview"))
            \/ startswith(path, Api("ask_m3_knowledge"))
      THEN "goldenview"
    ELSE IF is_sql_path(path)
      THEN "sql_api"
    ELSE IF startswith(path, Api("renumber"))
      THEN "bremsenumbau"
    ELSE IF startswith(path, Api("teilenummer"))
      THEN "teilenummer"
    ELSE IF startswith(path, Api("wagensuche"))
      THEN "wagensuche"
    ELSE IF \/ startswith(path, Api("meta"))
            \/ startswith(path, Api("wagons"))
            \/ startswith(path, Api("spareparts"))
            \/ startswith(path, Api("objstrk"))
            \/ path = Api("reload")
      THEN "objektstruktur"
    ELSE IF path = Api("health")
      THEN "appmfd"
    ELSE "appmfd"

CoreOwners ==
    {"appmfd", "objektstruktur", "bremsenumbau", "teilenummer",
     "wagensuche", "mehrkilometer"}

\* a filter that knows no shared static assets
should_serve_owned_only(service, path) ==
    IF service = "core" THEN classify_path(path) \in CoreOwners
    ELSE IF service = "rsrd2" THEN classify_path(path) = "rsrd"
    ELSE classify_path(path) = service

should_serve_path(service, path) ==
    IF is_shared_static_path(path) THEN TRUE
    ELSE LET owner == classify_path(path) IN
         IF service = "core" THEN owner \in CoreOwners
         ELSE IF service = "rsrd2" THEN owner = "rsrd"
         ELSE owner = service

(***************************************************************************)
(* The path filter in front of the wrapped application.  A request is a    *)
(* scope (type and path) received by the filter of one service; the        *)
(* filter either invokes the wrapped application or sends the answer       *)
(* itself.                                                                 *)
(***************************************************************************)
BasePaths ==
    RootPaths \cup SHARED_STATIC_PATHS \cup SqlPaths \cup
    { <<>>, <<"/", "portal">>, <<"/", "portal", "/">>,
      <<"/", "bilder">>, <<"/", "bilder", "/">>,
      <<"/", "objektstrukturtausch", ".html">>,
      <<"/", "wagenumbau", ".html">>,
      <<"/", "teilenummer", ".html">>,
      <<"/", "wagensuche", ".html">>,
      <<"/", "rsrd2", ".html">>,
      <<"/", "rsrd2", "_compare", ".html">>,
      <<"/", "gpt-goldenview", ".html">>,
      <<"/", "api">> } \cup
    { Api(name) : name \in
        {"mehrkilometer", "rsrd2", "goldenview", "ask_m3_knowledge",
         "renumber", "teilenummer", "wagensuche", "meta", "wagons",
         "spareparts", "objstrk", "reload", "health"} }

Tails == { <<>>, <<"x">>, <<"/">>, <<"/", "x">> }

\* the paths that start a background job, one per owner, and the two
\* paths on which a job is polled
JobStartPaths ==
    { Api("renumber") \o <<"/", "run">>,
      Api("renumber") \o <<"/", "install">>,
      Api("teilenummer") \o <<"/", "run">>,
      Api("rsrd2") \o <<"/", "load_erp">> }

JobPollPaths ==
    { Api("rsrd2") \o <<"/", "jobs", "/", "x">>,
      Api("goldenview") \o <<"/", "jobs", "/", "x">> }

Paths ==
    { base \o tail : base \in BasePaths, tail \in Tails }
      \cup JobStartPaths \cup JobPollPaths

ScopeTypes == {"http", "websocket", "lifespan"}

Request(service, type, path) ==
    [service |-> service, type |-> type, path |-> path,
     pc |-> "received", app_calls |-> 0, status_code |-> 0]

\* `path = str(scope.get("path") or "")`: a scope without a path is
\* filtered as the empty path, which is a member of Paths.
InitRouting ==
    /\ served \in { Request(service, type, path) :
                      service \in ServiceName, type \in ScopeTypes,
                      path \in Paths }
    /\ tableExists = FALSE /\ table = <<>>
    /\ tauschExists = FALSE /\ tausch = <<>>
    /\ dryRun = FALSE /\ retryLimit = TRUE
    /\ job = NoJob /\ apiLog = <<>> /\ remoteLog = <<>> /\ nJobs = 0
    /\ jobs = <<>> /\ polled = NoPoll /\ parts = NoParts
    /\ resolved = NoResolved /\ workers = NoWorkers /\ snapshot = NoSnapshot

Forward == [served EXCEPT !.pc = "forwarded", !.app_calls = @ + 1]

\* a filter that invokes the wrapped application for every request
forward_always(service, path) == TRUE

forward_http(service, path) == should_serve_path(service, path)

PathFilteredASGI_call ==
    /\ served # NoRequest
    /\ served.pc = "received"
    /\ served' =
         IF served.type # "http" THEN Forward
         ELSE IF forward_http(served.service, served.path) THEN Forward
         ELSE [served EXCEPT !.pc = "answered", !.status_code = 404]
    /\ UNCHANGED <<tableExists, table, tauschExists, tausch, dryRun,
                   retryLimit, job, apiLog, remoteLog, nJobs, jobs, polled,
                   parts,
                   resolved, workers, snapshot>>

NextRouting == PathFilteredASGI_call

SpecRouting == InitRouting /\ [][NextRouting]_vars

Arrived == served # NoRequest

HtmlPages ==
    { <<<<"/", "objektstrukturtausch", ".html">>, "objektstruktur">>,
      <<<<"/", "wagenumbau", ".html">>, "bremsenumbau">>,
      <<<<"/", "teilenummer", ".html">>, "teilenummer">>,
      <<<<"/", "wagensuche", ".html">>, "wagensuche">>,
      <<<<"/", "wagensuche", ".js">>, "wagensuche">>,
      <<<<"/", "rsrd2", ".html">>, "rsrd">>,
      <<<<"/", "rsrd2", "_compare", ".html">>, "rsrd">>,
      <<<<"/", "rsrd2", "_compare", ".js">>, "rsrd">>,
      <<<<"/", "gpt-goldenview", ".html">>, "goldenview">>,
      <<<<"/", "M3BRIDGE", ".html">>, "sql_api">> }

ApiPrefixes ==
    { <<"mehrkilometer", "mehrkilometer">>, <<"rsrd2", "rsrd">>,
      <<"goldenview", "goldenview">>, <<"ask_m3_knowledge", "goldenview">>,
      <<"renumber", "bremsenumbau">>, <<"teilenummer", "teilenummer">>,
      <<"wagensuche", "wagensuche">>, <<"meta", "objektstruktur">>,
      <<"wagons", "objektstruktur">>, <<"spareparts", "objektstruktur">>,
      <<"objstrk", "objektstruktur">> }

IsRoot(path) ==
    path \in RootPaths \/ startswith(path, <<"/", "portal", "/">>)

\* the rule table: `sql` says whether the path falls under the /query rule
RuleTable(path, owner, sql) ==
    /\ owner \in CanonicalService
    /\ IsRoot(path) => owner = "appmfd"
    /\ \A page \in HtmlPages : path = page[1] => owner = page[2]
    /\ \A rule \in ApiPrefixes :
          startswith(path, Api(rule[1])) => owner = rule[2]
    /\ sql => owner = "sql_api"
    /\ path = Api("reload") => owner = "objektstruktur"
    /\ ( /\ ~IsRoot(path)
         /\ \A page \in HtmlPages : path # page[1]
         /\ \A rule \in ApiPrefixes : ~startswith(path, Api(rule[1]))
         /\ ~sql
         /\ path # Api("reload") )
       => owner = "appmfd"

ServedBy(service) ==
    IF service = "core" THEN CoreOwners
    ELSE IF service = "rsrd2" THEN {"rsrd"}
    ELSE {service}

\* C28: should_serve_path(service, path) is true exactly when the path is a
\* shared static asset or its owner is in the set the service serves
\* (a canonical service serves itself, core serves six owners, rsrd2
\* serves rsrd); every path that is not shared is served by exactly one
\* canonical service.
C28_ServeOwnedOrShared ==
    Arrived =>
      LET path == served.path
          shared == \/ path \in SHARED_STATIC_PATHS
                    \/ startswith(path, <<"/", "bilder", "/">>)
      IN /\ should_serve_path(served.service, path)
              <=> (shared \/ classify_path(path) \in ServedBy(served.service))
         /\ ~shared =>
              Cardinality({service \in CanonicalService :
                             should_serve_path(service, path)}) = 1
         /\ (served.type = "http" /\ served.pc # "received") =>
              ((served.pc = "forwarded")
                 <=> (shared \/ classify_path(path) \in ServedBy(served.service)))

\* a file under /bilder/ was let through by the filter of goldenview,
\* which does not own it
C28_Witness ==
    /\ Arrived
    /\ served.pc = "forwarded"
    /\ served.type = "http"
    /\ served.service = "goldenview"
    /\ served.path = <<"/", "bilder", "/", "x">>

\* C29 as stated: classify_path gives every path an owner by the rule
\* table, where any path beginning with /query belongs to sql_api.
C29_ClassifyQueryPrefix ==
    Arrived =>
      RuleTable(served.path, classify_path(served.path),
                startswith(served.path, <<"/", "query">>))

\* C29 amended: the rule table holds when sql_api owns exactly /query,
\* /query/ and /M3BRIDGE.html; a longer path beginning with /query matches
\* no rule and belongs to appmfd.
C29_ClassifyQueryExact ==
    Arrived =>
      LET path == served.path IN
      /\ RuleTable(path, classify_path(path),
                   path \in { <<"/", "query">>, <<"/", "query", "/">> })
      /\ (startswith(path, <<"/", "query">>) /\ Len(path) > 2
            /\ path # <<"/", "query", "/">>)
           => classify_path(path) = "appmfd"

\* the filter of appmfd received /query/x and passed it on as its own
C29_Witness ==
    /\ Arrived
    /\ served.service = "appmfd"
    /\ served.type = "http"
    /\ served.path = <<"/", "query", "/", "x">>
    /\ served.pc = "forwarded"

\* C30: an HTTP request is passed to the wrapped application if and only if
\* should_serve_path holds for the service and the path; otherwise the
\* filter answers 404 and the wrapped application is not invoked; a scope
\* of another type is always passed on.
C30_FilterForwardsOwned ==
    (Arrived /\ served.pc # "received") =>
      LET serve == should_serve_path(served.service, served.path) IN
      /\ served.type = "http" =>
            /\ (served.pc = "forwarded") <=> serve
            /\ serve => served.app_calls = 1 /\ served.status_code = 0
            /\ ~serve => /\ served.pc = "answered"
                         /\ served.status_code = 404
                         /\ served.app_calls = 0
      /\ served.type # "http" =>
            served.pc = "forwarded" /\ served.app_calls = 1

\* the filter of objektstruktur answered a request for an rsrd path itself
C30_Witness ==
    /\ Arrived
    /\ served.pc = "answered"
    /\ served.service = "objektstruktur"
    /\ served.path = <<"/", "api", "/", "rsrd2", "/", "x">>
    /\ served.status_code = 404
    /\ served.app_calls = 0

----------------------------------------------------------------------------
(***************************************************************************)
(* The resolver of a removal history on its own: the rows the warehouse    *)
(* delivers, the work items _build_mrouhi_preview_rows makes of them and   *)
(* the candidate lists _build_mrouhi_parent_candidates computes            *)
(***************************************************************************)

\* the rows of the histories above, a second part at 1-1-1, a part without
\* position and an assembly B / a at 1-1 that was never removed
ResolverEntries ==
    HistoryEntries \cup
    {HistoryEntry(<<"1", "1", "1">>, "C", "b", "", "20240101"),
     HistoryEntry(<<>>, "B", "a", "", "20240101"),
     HistoryEntry(<<"1", "1">>, "B", "a", "", "00000000"),
     HistoryEntry(<<"1", "1">>, "B", "a", "106", "")}

ResolverHistories ==
    {rows \in SeqsUpTo(ResolverEntries, MaxHistory) : OrderedByCfgl(rows)}

\* the indexes of the rows in the order of sorted_entries
sorted_idx(rows) ==
    LET entries == HistoryFilter(rows, 0)
        todo == sorted_entries({entries[i] : i \in 1..Len(entries)})
    IN [k \in 1..Len(todo) |-> todo[k].idx]

\* the entry of a position that is handled last by the loop over entries
LastEntryAt(entries, cfgl) ==
    entries[CHOOSE i \in 1..Len(entries) :
               /\ entries[i].CFGL = cfgl
               /\ \A j \in (i + 1)..Len(entries) : entries[j].CFGL # cfgl]

\* _build_mrouhi_parent_candidates: candidate_map, by position; a position
\* without parent position has no key
build_mrouhi_parent_candidates(rows) ==
    LET entries == HistoryFilter(rows, 0)
        keys == CfglKeys(entries)
        cfgl_map == CfglMap(entries, keys)
    IN [k \in 1..Len(keys) |->
          [CFGL |-> keys[k],
           has_key |-> parent_cfgl_for(keys[k]) # <<>>,
           candidates |-> ParentCandidates(LastEntryAt(entries, keys[k]), cfgl_map, keys)]]

NoPreview == [pc |-> "none", preview |-> <<>>, order |-> <<>>]
NoCandidates == [pc |-> "none", candidate_map |-> <<>>]

InitResolver ==
    /\ resolved \in {[rows |-> rows, p |-> NoPreview, c |-> NoCandidates] :
                       rows \in ResolverHistories}
    /\ tableExists = FALSE /\ table = <<>>
    /\ tauschExists = FALSE /\ tausch = <<>>
    /\ dryRun = FALSE /\ retryLimit = TRUE
    /\ job = NoJob /\ apiLog = <<>> /\ remoteLog = <<>> /\ nJobs = 0
    /\ jobs = <<>> /\ polled = NoPoll /\ parts = NoParts /\ served = NoRequest
    /\ workers = NoWorkers /\ snapshot = NoSnapshot

\* _build_mrouhi_preview_rows(hisn, env) on the delivered rows
build_preview ==
    /\ resolved # NoResolved /\ resolved.p.pc = "none"
    /\ resolved' = [resolved EXCEPT !.p =
                      [pc |-> "done",
                       preview |-> build_mrouhi_preview_rows(resolved.rows),
                       order |-> sorted_idx(resolved.rows)]]
    /\ UNCHANGED <<tableExists, table, tauschExists, tausch, dryRun, retryLimit, job,
                   apiLog, remoteLog, nJobs, jobs, polled, parts, served, workers,
                   snapshot>>

\* _build_mrouhi_parent_candidates(hisn, env) on the same rows
build_parent_candidates ==
    /\ resolved # NoResolved /\ resolved.c.pc = "none"
    /\ resolved' = [resolved EXCEPT !.c =
                      [pc |-> "done",
                       candidate_map |-> build_mrouhi_parent_candidates(resolved.rows)]]
    /\ UNCHANGED <<tableExists, table, tauschExists, tausch, dryRun, retryLimit, job,
                   apiLog, remoteLog, nJobs, jobs, polled, parts, served, workers,
                   snapshot>>

NextResolver == build_preview \/ build_parent_candidates

SpecResolver == InitResolver /\ [][NextResolver]_vars

Previewed == resolved # NoResolved /\ resolved.p.pc = "done"

\* a record that is in scope: it has a position and was removed
InScope(entry) == entry.CFGL # <<>> /\ entry.REMD \notin {"", "0", "00000000"}

Item(e) == [CFGL |-> e.CFGL, ITNO |-> e.ITNO, SERN |-> e.SERN, REMD |-> e.REMD]

Occurrences(s, x) == Cardinality({i \in 1..Len(s) : s[i] = x})

\* C31: the resolver makes exactly one work item of every record with a
\* position and a removal date other than empty, 0 and 00000000, none of
\* any other record, and no other record is taken for a parent.
C31_OneItemPerRemovedRecord ==
    Previewed =>
      LET rows == resolved.rows
          preview == resolved.p.preview
          kept == SelectSeq(rows, InScope)
          items == [k \in 1..Len(preview) |-> Item(preview[k])]
          scope == [i \in 1..Len(kept) |-> Item(kept[i])]
      IN /\ Len(preview) = Len(kept)
         /\ \A i \in 1..Len(kept) : Occurrences(items, scope[i]) = Occurrences(scope, scope[i])
         /\ \A k \in 1..Len(preview) :
               \/ /\ preview[k].PARENT_ITNO = "W"
                  /\ preview[k].PARENT_SERN = "w"
               \/ \E i \in 1..Len(kept) :
                     /\ kept[i].ITNO = preview[k].PARENT_ITNO
                     /\ kept[i].SERN = preview[k].PARENT_SERN
                     /\ kept[i].CFGL # preview[k].CFGL

\* a part at 1-1-1 was resolved while the only record at 1-1 has a zero
\* removal date and another record has no position: one work item, under
\* the wagon
C31_Witness ==
    /\ Previewed
    /\ Len(resolved.rows) = 3
    /\ resolved.rows[1].CFGL = <<>>
    /\ resolved.rows[2].REMD = "00000000"
    /\ Len(resolved.p.preview) = 1
    /\ resolved.p.preview[1].CFGL = <<"1", "1", "1">>
    /\ resolved.p.preview[1].PARENT_ITNO = "W"

\* C32: in the resolver's output an item with more path segments precedes
\* every item with fewer, and items at the same path keep the order in
\* which their records were delivered.
C32_DepthThenInputOrder ==
    Previewed =>
      LET preview == resolved.p.preview
          order == resolved.p.order
      IN \A p, q \in 1..Len(preview) :
            p < q =>
              /\ Len(cfgl_segments(preview[p].CFGL)) >= Len(cfgl_segments(preview[q].CFGL))
              /\ preview[p].CFGL = preview[q].CFGL => order[p] < order[q]

Resolved == Previewed /\ resolved.c.pc = "done"

\* C38: the parent the resolver gives to the i-th item of a path is the
\* element at index i, modulo the length, of the sorted candidate list that
\* _build_mrouhi_parent_candidates computes for that path.
C38_ResolversAgree ==
    Resolved =>
      LET preview == resolved.p.preview
          candidate_map == resolved.c.candidate_map
      IN \A k \in 1..Len(preview), m \in 1..Len(candidate_map) :
            ( /\ candidate_map[m].CFGL = preview[k].CFGL
              /\ candidate_map[m].has_key
              /\ candidate_map[m].candidates # <<>> )
            => LET candidates == candidate_map[m].candidates
                   chosen == candidates[(ChildIndex(preview, k) % Len(candidates)) + 1]
               IN /\ preview[k].PARENT_ITNO = chosen.ITNO
                  /\ preview[k].PARENT_SERN = chosen.SERN

----------------------------------------------------------------------------
(* Progress counters of the jobs                                           *)

\* C33: while a job runs and after it has ended, its processed counter is
\* at least 0 and at most the total it announced.
C33_ProcessedWithinTotal ==
    job.status # "none" => 0 <= job.processed /\ job.processed <= job.total

\* C34: a job that ended with status success reports as result.total its
\* last processed counter, and result.ok and result.error add up to it.
C34_SuccessCountersConsistent ==
    job.status = "success" =>
      /\ job.result.total = job.processed
      /\ job.result.ok + job.result.error = job.result.total

----------------------------------------------------------------------------
(***************************************************************************)
(* Remove and install jobs whose worker threads run at the same time.      *)
(* The POST handlers create a job and start its thread whatever else is    *)
(* running; every worker reads the table once and then goes through its    *)
(* rows.                                                                   *)
(***************************************************************************)
MaxWorkers == 2     \* jobs started in one behaviour

OverlapJobs == {"renumber_run", "renumber_install"}

\* a job of the registry with the locals of its worker; beside lists the
\* jobs that were running when this one was started
Worker(job_type, beside) ==
    [type |-> job_type, status |-> "running", pc |-> "load", rows |-> <<>>,
     idx |-> 0, processed |-> 0, cur |-> NoCur, beside |-> beside]

Active(w) == workers[w].status = "running"

InitOverlap ==
    /\ tableExists = TRUE
    /\ table \in DatedTables
    /\ dryRun = FALSE
    /\ retryLimit = TRUE
    /\ job = NoJob
    /\ tauschExists = FALSE
    /\ tausch = <<>>
    /\ apiLog = <<>>
    /\ remoteLog = <<>>
    /\ nJobs = 0
    /\ jobs = <<>> /\ polled = NoPoll /\ parts = NoParts /\ served = NoRequest
    /\ resolved = NoResolved /\ workers = NoWorkers /\ snapshot = NoSnapshot

\* POST /api/renumber/run, POST /api/renumber/install: _create_job and
\* threading.Thread(target=_worker).start()
worker_start ==
    /\ Len(workers) < MaxWorkers
    /\ \E job_type \in OverlapJobs :
         workers' = Append(workers,
                       Worker(job_type, {w \in 1..Len(workers) : Active(w)}))
    /\ nJobs' = nJobs + 1
    /\ UNCHANGED <<tableExists, table, tauschExists, tausch, dryRun, retryLimit, job,
                   apiLog, remoteLog, jobs, polled, parts, served, resolved, snapshot>>

\* the SELECT of all rows in the order of SEQ and _update_job(total=...)
worker_load ==
    /\ \E w \in 1..Len(workers) :
         /\ Active(w) /\ workers[w].pc = "load"
         /\ LET rows == TargetRows(workers[w].type)
            IN workers' = [workers EXCEPT
                 ![w].rows = rows,
                 ![w].idx = 1,
                 ![w].pc = IF rows = <<>> THEN "idle" ELSE "item",
                 ![w].status = IF rows = <<>> THEN "success" ELSE "running"]
    /\ UNCHANGED <<tableExists, table, tauschExists, tausch, dryRun, retryLimit, job,
                   apiLog, remoteLog, nJobs, jobs, polled, parts, served, resolved,
                   snapshot>>

\* a call of MOS125MI RemoveInstall as the remote service receives it
OverlapCall(w, rowid) ==
    [job |-> w, program |-> Program(workers[w].type), row |-> rowid,
     step |-> workers[w].type]

\* one loop iteration up to the API log record: the call for the row
worker_attempt ==
    /\ \E w \in 1..Len(workers), outcome \in InstallOutcomes :
         /\ Active(w) /\ workers[w].pc = "item"
         /\ LET rowid == workers[w].rows[workers[w].idx][1]
                job_type == workers[w].type
                branch == StepBranch(RequiredMissing(job_type, table[rowid]), dryRun)
                cur == CASE branch = "invalid" -> InvalidOutcome(job_type)
                         [] branch = "dryrun" -> DryRunOutcome(job_type)
                         [] OTHER -> LiveOutcome(job_type, outcome)
            IN /\ branch # "live" => outcome = "ok"
               /\ remoteLog' = IF branch = "live"
                               THEN Append(remoteLog, OverlapCall(w, rowid))
                               ELSE remoteLog
               /\ apiLog' = Append(apiLog,
                     [ApiEntry(ApiAction(job_type), rowid, cur.ok, ApiError(cur))
                        EXCEPT !.job = w])
               /\ workers' = [workers EXCEPT ![w].pc = "commit", ![w].cur = cur]
    /\ UNCHANGED <<tableExists, table, tauschExists, tausch, dryRun, retryLimit, job,
                   nJobs, jobs, polled, parts, served, resolved, snapshot>>

\* UPDATE ... SET "OUT" / "IN" = ? WHERE rowid = ?, processed = idx, and
\* _finish_job after the last row
worker_commit ==
    /\ \E w \in 1..Len(workers) :
         /\ Active(w) /\ workers[w].pc = "commit"
         /\ table' = SetColumn(table, workers[w].type,
                               workers[w].rows[workers[w].idx], workers[w].cur.out)
         /\ LET last == workers[w].idx = Len(workers[w].rows)
            IN workers' = [workers EXCEPT
                 ![w].processed = workers[w].idx,
                 ![w].idx = IF last THEN @ ELSE @ + 1,
                 ![w].pc = IF last THEN "idle" ELSE "item",
                 ![w].status = IF last THEN "success" ELSE "running"]
    /\ UNCHANGED <<tableExists, tauschExists, tausch, dryRun, retryLimit, job, apiLog,
                   remoteLog, nJobs, jobs, polled, parts, served, resolved, snapshot>>

NextOverlap ==
    \/ worker_start
    \/ worker_load
    \/ worker_attempt
    \/ worker_commit

SpecOverlap == InitOverlap /\ [][NextOverlap]_vars

\* C35: when two jobs of one step run at the same time, the remote service
\* receives the step's call for an item from at most one of them.
C35_NoCallTwiceAcrossJobs ==
    \A i, k \in 1..Len(remoteLog) :
       ( /\ remoteLog[i].job # remoteLog[k].job
         /\ remoteLog[i].step = remoteLog[k].step
         /\ remoteLog[i].job \in workers[remoteLog[k].job].beside )
       => remoteLog[i].row # remoteLog[k].row

----------------------------------------------------------------------------
(***************************************************************************)
(* The dict that _job_snapshot returns, as an object: dict(job) copies the *)
(* entry's keys, so the snapshot's results is the list object of the       *)
(* entry, named here by the id of its job; logs is a list of its own.      *)
(***************************************************************************)

\* snapshot = dict(job); snapshot["logs"] = list(job.get("logs", [])).
\* The entry has a results list from the worker's first _update_job on.
job_snapshot_object(job_id) ==
    LET entry == jobs[job_id]
    IN [id |-> entry.id, status |-> entry.status, logs |-> entry.logs,
        result |-> entry.result, error |-> entry.error, total |-> entry.total,
        processed |-> entry.processed,
        results_of |-> IF entry.total = -1 THEN 0 ELSE job_id]

\* a poll up to the return of _job_snapshot
job_snapshot_return ==
    /\ \E job_id \in 1..Len(jobs) : snapshot' = job_snapshot_object(job_id)
    /\ UNCHANGED <<tableExists, table, tauschExists, tausch, dryRun, retryLimit, job,
                   apiLog, remoteLog, nJobs, jobs, polled, parts, served, resolved,
                   workers>>

NextSnapshot ==
    \/ RegisterJob
    \/ update_job
    \/ publish_result
    \/ append_job_log
    \/ finish_job_entry
    \/ job_snapshot_return

SpecSnapshot == InitRegistry /\ [][NextSnapshot]_vars

\* the per-item results a reader finds in the returned snapshot
SnapshotResults ==
    IF snapshot = NoSnapshot \/ snapshot.results_of = 0 THEN <<>>
    ELSE jobs[snapshot.results_of].results

\* C36: once _job_snapshot has returned, nothing the worker does changes the
\* log lines or the per-item results of the returned snapshot.
C36_SnapshotIsolated ==
    [][(snapshot # NoSnapshot /\ snapshot' = snapshot)
         => SnapshotResults' = SnapshotResults]_vars

----------------------------------------------------------------------------
(* The rollback status of an item and the calls made for it                *)

\* C37: when one of the install calls the rollback job made for an item,
\* the first or one against another parent candidate, was classified as a
\* success, the ROLLBACK status stored for the item is a success status and
\* the item is counted ok.
C37_SuccessfulCallIsKept ==
    (Running /\ job.type \in RollbackJobs /\ job.pc = "publish") =>
      LET rowid == job.rows[job.idx][1]
      IN (\E i \in 1..Len(apiLog) :
             /\ apiLog[i].job = nJobs
             /\ apiLog[i].action = "rollback"
             /\ apiLog[i].row = rowid
             /\ apiLog[i].ok)
         => /\ table[rowid].ROLLBACK \in
                 {"OK", "OK_ASYNC", "OK: bereits installiert", "DRYRUN"}
            /\ job.cur.ok

----------------------------------------------------------------------------
(* The order of the steps of one item of the part-number exchange          *)

\* C39: the exchange run issues the remote call of a step for an item only
\* if every earlier step of that item succeeded; the install call is not
\* issued after a failed removal, nor approve after a failed change of the
\* serial number.
C39_LaterStepOnlyAfterSuccess ==
    [][(job.type = "teilenummer_run" /\ Len(remoteLog') > Len(remoteLog))
         => \A i \in 1..Len(apiLog) :
               ( /\ apiLog[i].job = nJobs
                 /\ apiLog[i].row = job.idx
                 /\ apiLog[i].action # apiLog'[Len(apiLog')].action )
               => apiLog[i].ok]_vars

----------------------------------------------------------------------------
(* Starting and polling a job behind the path filter                       *)

\* C40: whenever the filter of a service passes a path that starts a job,
\* the same service serves at least one of the paths on which jobs are
\* polled.
C40_StartedJobCanBePolled ==
    ( /\ Arrived
      /\ served.type = "http"
      /\ served.path \in JobStartPaths
      /\ served.pc = "forwarded" )
    => \E poll \in JobPollPaths : should_serve_path(served.service, poll)
====
